---------------------------- MODULE Spec2Model ----------------------------
(***************************************************************************)
(* Model of the Ceph backend of Bynar (src/backend/ceph.rs): the OSD       *)
(* lifecycle orchestrator (add_disk / remove_disk / safe_to_remove), the   *)
(* journal device selector, the volume provisioner with its LVM tags, and  *)
(* the host service adapter.                                               *)
(*                                                                         *)
(* Option<T> values are sets: {} is None and {x} is Some(x).               *)
(* Strings are TLA+ strings; Len, SubSeq and \o act on them as on          *)
(* sequences of characters.                                                *)
(***************************************************************************)
EXTENDS Integers, Sequences, FiniteSets, TLC

\* ------------------------------------------------------------------------
\* Bounds of the model
\* ------------------------------------------------------------------------
\* OSD ids the cluster can hand out are 0..MaxOsdId
MaxOsdId == 2
\* add/remove calls made in one behaviour
MaxCalls == 2
\* collaborator failures injected in one behaviour
MaxFaults == 1
\* journal partitions a journal device has room for beyond the first
MaxNewParts == 2
\* largest OSD id written into a tag set by the tag round-trip specification
MaxTagId == 10
\* unrelated tags interleaved with the written ones (tag round-trip)
MaxExtraTags == 1
\* OSD directories enumerated by the partition_in_use specification
MaxScanDirs == 3
\* journal candidates a configuration lists (journal selection)
MaxCands == 3
\* largest num_partitions a configured candidate carries (journal selection)
MaxPartCount == 3

\* ------------------------------------------------------------------------
\* Option helpers
\* ------------------------------------------------------------------------
None == {}
Some(x) == {x}
IsSome(o) == o # {}
IsNone(o) == o = {}
The(o) == CHOOSE x \in o : TRUE

\* ------------------------------------------------------------------------
\* Strings: str::starts_with, str::split, u64 Display / FromStr,
\* uuid Display / parse_str
\* ------------------------------------------------------------------------
\* str::starts_with(prefix)
StartsWith(s, p) == Len(s) >= Len(p) /\ SubSeq(s, 1, Len(p)) = p

\* position of the first occurrence of character c in s at or after i,
\* Len(s)+1 when there is none
RECURSIVE FindChar(_, _, _)
FindChar(s, c, i) ==
    IF i > Len(s) THEN Len(s) + 1
    ELSE IF SubSeq(s, i, i) = c THEN i
    ELSE FindChar(s, c, i + 1)

\* str::split(c) collected into a Vec: always at least one part
RECURSIVE SplitFrom(_, _, _)
SplitFrom(s, c, i) ==
    LET j == FindChar(s, c, i)
    IN  IF j > Len(s) THEN << SubSeq(s, i, Len(s)) >>
        ELSE << SubSeq(s, i, j - 1) >> \o SplitFrom(s, c, j + 1)

Split(s, c) == SplitFrom(s, c, 1)

Digits == << "0", "1", "2", "3", "4", "5", "6", "7", "8", "9" >>

IsDigit(c) == \E d \in 1..10 : Digits[d] = c
DigitVal(c) == (CHOOSE d \in 1..10 : Digits[d] = c) - 1

\* format!("{}", n) for an unsigned integer
RECURSIVE FormatU64(_)
FormatU64(n) ==
    IF n < 10 THEN Digits[n + 1]
    ELSE FormatU64(n \div 10) \o Digits[(n % 10) + 1]

RECURSIVE DigitsValue(_, _, _)
DigitsValue(s, i, acc) ==
    IF i > Len(s) THEN acc
    ELSE DigitsValue(s, i + 1, acc * 10 + DigitVal(SubSeq(s, i, i)))

\* u64::from_str: an optional leading '+', then one or more decimal digits;
\* anything else is an error (None here)
ParseU64(s) ==
    LET body == IF Len(s) > 0 /\ SubSeq(s, 1, 1) = "+"
                THEN SubSeq(s, 2, Len(s)) ELSE s
    IN  IF Len(body) > 0 /\ \A i \in 1..Len(body) : IsDigit(SubSeq(body, i, i))
        THEN Some(DigitsValue(body, 1, 0))
        ELSE None

\* The UUIDs of the model: partition GUIDs, osd fsids, the cluster fsid,
\* volume group names
Uuids == 1..12

HexLower == << "1", "2", "3", "4", "5", "6", "7", "8", "9", "a", "b", "c" >>
HexUpper == << "1", "2", "3", "4", "5", "6", "7", "8", "9", "A", "B", "C" >>

\* Display / to_hyphenated of a uuid::Uuid: lower-case hyphenated text
UuidText(u) ==
    "c0ffee0" \o HexLower[u] \o "-0000-4000-8000-feed0000000" \o HexLower[u]

\* the same uuid's text in upper case, which parse_str accepts as well
UuidUpperText(u) ==
    "C0FFEE0" \o HexUpper[u] \o "-0000-4000-8000-FEED0000000" \o HexUpper[u]

\* Uuid::parse_str / Uuid::from_str: None for a text that is no uuid
ParseUuid(s) ==
    LET hit == { u \in Uuids : s = UuidText(u) \/ s = UuidUpperText(u) }
    IN  IF hit = {} THEN None ELSE Some(CHOOSE u \in hit : TRUE)


IsSpace(ch) == ch = " " \/ ch = "\n" \/ ch = "\t"

\* str::trim: leading and trailing whitespace removed
RECURSIVE Trim(_)
Trim(s) ==
    IF Len(s) = 0 THEN s
    ELSE IF IsSpace(SubSeq(s, 1, 1)) THEN Trim(SubSeq(s, 2, Len(s)))
    ELSE IF IsSpace(SubSeq(s, Len(s), Len(s))) THEN Trim(SubSeq(s, 1, Len(s) - 1))
    ELSE s

\* Path::file_name of an absolute path: its last component
FileName(path) == LET parts == Split(path, "/") IN parts[Len(parts)]

\* ------------------------------------------------------------------------
\* JournalDevice (struct, Display)
\* ------------------------------------------------------------------------
JournalDevice(dev, pid, puuid, nparts) ==
    [ device |-> dev, partition_id |-> pid, partition_uuid |-> puuid,
      num_partitions |-> nparts ]

\* impl fmt::Display for JournalDevice: the device path, followed by the
\* partition id when there is one
JournalDisplay(j) ==
    IF IsSome(j.partition_id)
    THEN j.device \o FormatU64(The(j.partition_id))
    ELSE j.device

\* ------------------------------------------------------------------------
\* Device tag set: create_lvm_tags and the read-back of remove_bluestore_osd
\* ------------------------------------------------------------------------
MediaTypes == { "SolidState", "Rotational", "NVME", "Unknown" }

\* match info.media_type { ... } of create_lvm_tags
CrushDeviceClassTag(media) ==
    CASE media = "SolidState" -> "ceph.crush_device_class=ssd"
      [] media = "Rotational" -> "ceph.crush_device_class=hdd"
      [] media = "NVME"       -> "ceph.crush_device_class=nvme"
      [] OTHER                -> "ceph.crush_device_class=None"

\* format!("ceph.osd_id={}", new_osd_id)
OsdIdTag(id) == "ceph.osd_id=" \o FormatU64(id)

\* format!("ceph.osd_fsid={}", osd_fsid)
OsdFsidTag(fsid) == "ceph.osd_fsid=" \o UuidText(fsid)

\* a tag vector that names the journal's device but not its partition uuid
LvmTagListWithoutWalUuid(lvDevName, osdFsid, newOsdId, clusterFsid, lvUuid, journal, walUuid, media) ==
    << "ceph.type=block",
       "ceph.block_device=" \o lvDevName,
       OsdIdTag(newOsdId),
       OsdFsidTag(osdFsid),
       "ceph.cluster_name=ceph",
       "ceph.cluster_fsid=" \o UuidText(clusterFsid),
       "ceph.encrypted=0",
       "ceph.cephx_lockbox_secret=",
       "ceph.block_uuid=" \o UuidText(lvUuid) >>
    \o (IF IsSome(journal)
        THEN << "ceph.wal_device=" \o JournalDisplay(The(journal)) >>
        ELSE << >>)
    \o << CrushDeviceClassTag(media) >>

\* The vector `tags` create_lvm_tags builds, in its order. journal is an
\* Option<JournalDevice>; walUuid is the partition uuid the code uses for
\* it (its partition_uuid, or the PARTUUID probed from the device).
LvmTagList(lvDevName, osdFsid, newOsdId, clusterFsid, lvUuid, journal, walUuid, media) ==
    << "ceph.type=block",
       "ceph.block_device=" \o lvDevName,
       OsdIdTag(newOsdId),
       OsdFsidTag(osdFsid),
       "ceph.cluster_name=ceph",
       "ceph.cluster_fsid=" \o UuidText(clusterFsid),
       "ceph.encrypted=0",
       "ceph.cephx_lockbox_secret=",
       "ceph.block_uuid=" \o UuidText(lvUuid) >>
    \o (IF IsSome(journal)
        THEN << "ceph.wal_device=" \o JournalDisplay(The(journal)),
                "ceph.wal_uuid=" \o UuidText(walUuid) >>
        ELSE << >>)
    \o << CrushDeviceClassTag(media) >>

\* tags.iter().find(|t| t.starts_with(prefix)): the first such tag
RECURSIVE FindTagFrom(_, _, _)
FindTagFrom(tags, prefix, i) ==
    IF i > Len(tags) THEN None
    ELSE IF StartsWith(tags[i], prefix) THEN Some(tags[i])
    ELSE FindTagFrom(tags, prefix, i + 1)

FindTag(tags, prefix) == FindTagFrom(tags, prefix, 1)

\* The value a found tag carries: tag.split('=') ... parts.get(1)
TagValue(tag) ==
    LET parts == Split(tag, "=")
    IN  IF Len(parts) >= 2 THEN Some(parts[2]) ELSE None

\* One iteration of `for lv in &lvs` in remove_bluestore_osd: acc is
\* [err, osd_id, osd_fsid]; a value that does not parse returns the error
ReadLvTags(acc, tags) ==
    LET idTag   == FindTag(tags, "ceph.osd_id")
        idVal   == IF IsSome(idTag) THEN TagValue(The(idTag)) ELSE None
        idBad   == IsSome(idVal) /\ IsNone(ParseU64(The(idVal)))
        id2     == IF IsSome(idVal) /\ ~idBad
                   THEN ParseU64(The(idVal)) ELSE acc.osd_id
        fsTag   == FindTag(tags, "ceph.osd_fsid")
        fsVal   == IF IsSome(fsTag) THEN TagValue(The(fsTag)) ELSE None
        fsBad   == IsSome(fsVal) /\ IsNone(ParseUuid(The(fsVal)))
        fs2     == IF IsSome(fsVal) /\ ~fsBad
                   THEN ParseUuid(The(fsVal)) ELSE acc.osd_fsid
    IN  IF acc.err THEN acc
        ELSE IF idBad THEN [ acc EXCEPT !.err = TRUE ]
        ELSE IF fsBad THEN [ acc EXCEPT !.err = TRUE, !.osd_id = id2 ]
        ELSE [ err |-> FALSE, osd_id |-> id2, osd_fsid |-> fs2 ]

\* The whole read-back loop over the logical volumes' tag lists
RECURSIVE ReadTagsFrom(_, _, _)
ReadTagsFrom(lvs, i, acc) ==
    IF i > Len(lvs) THEN acc
    ELSE ReadTagsFrom(lvs, i + 1, ReadLvTags(acc, lvs[i]))

ReadOsdTags(lvs) ==
    ReadTagsFrom(lvs, 1, [ err |-> FALSE, osd_id |-> None, osd_fsid |-> None ])


\* ------------------------------------------------------------------------
\* The host, the cluster and the calls in flight
\* ------------------------------------------------------------------------
VARIABLES
    version,    \* CephBackend.version, read once by CephBackend::new
    config,     \* CephBackend.config.journal_devices: Option<Vec<JournalDevice>>
    osds,       \* cluster control plane: the OSD ids that are allocated
    auth,       \* cluster control plane: the OSD ids that hold an auth key
    crush,      \* cluster control plane: << id, weight in thousandths >> entries
    gpt,        \* partition table of every journal device
    dirs,       \* /var/lib/ceph/osd/ceph-<id>: Option of the directory's content
    vgs,        \* volume manager: Option of the volume group on each device
    disks,      \* each data device: formatted or not, and where it is mounted
    call,       \* the add / remove / safe_to_remove call of each caller
    ncalls,     \* calls started so far
    nfaults,    \* collaborator failures so far
    scratch     \* input and output of the pure-function specifications

vars == << version, config, osds, auth, crush, gpt, dirs, vgs, disks, call,
           ncalls, nfaults, scratch >>

hostVars == << osds, auth, crush, gpt, dirs, vgs, disks >>

OsdIds == 0..MaxOsdId

\* CephVersion is ordered; Luminous introduced bluestore
Versions == << "Jewel", "Luminous", "Mimic" >>
VersionRank(v) == CHOOSE i \in 1..Len(Versions) : Versions[i] = v
VersionAtLeast(v, w) == VersionRank(v) >= VersionRank(w)

\* the two callers a host may have; Spec runs them one call at a time
Procs == { 1, 2 }

\* data devices add and remove are called on; LegacyDev may hold a
\* filestore OSD that predates this process
LegacyDev == "/dev/sda"
\* a replacement disk that still carries a filesystem from an earlier use
UsedDev == "/dev/sdc"
NewDevs == { "/dev/sdb", "/dev/sdc" }
Devs == { LegacyDev } \cup NewDevs

\* journal devices and the GUID of partition i of each
JournalDevs == { "/dev/sdj", "/dev/sdk" }
PartGuid(jd, i) == IF jd = "/dev/sdj" THEN i ELSE 3 + i

\* uuid::Uuid::new_v4() for an OSD fsid draws from these
FsidPool == { 7, 8 }
\* rados_fsid() of the cluster
ClusterFsid == 9
\* format!("ceph-{}", uuid::Uuid::new_v4()): the volume group name
VgName(dev) ==
    "ceph-" \o UuidText(CASE dev = "/dev/sda" -> 10 [] dev = "/dev/sdb" -> 11 [] OTHER -> 12)
\* Path::new("/dev").join(&vg_name).join(&lv_name), lv_name "osd-block-<fsid>"
LvDevName(dev, fsid) == "/dev/" \o VgName(dev) \o "/osd-block-" \o UuidText(fsid)
\* lv.get_uuid(): the volume manager's own identifier of the volume
LvUuid == 10

OsdRoot == "/var/lib/ceph/osd"
\* Path::new("/var/lib/ceph/osd").join(format!("ceph-{}", id))
MountPoint(id) == OsdRoot \o "/ceph-" \o FormatU64(id)
\* a directory TempDir::new("osd") creates
TempMount == "/tmp/osd.k3Jx9"

\* an OSD directory as created by create_dir: empty
EmptyDir ==
    [ journal |-> None, wal |-> None, block |-> None, files |-> {},
      type |-> None, whoami |-> None ]

\* the value of osd_journal_size the cluster reports, in MB
JournalSizeMb == 1
\* gpt::disk::LogicalBlockSize::Lb512 => 512
LbaSize == 512
\* journal_size * 1024 * 1024
JournalBytes(mb) == mb * 1024 * 1024

\* A size in bytes is kept as [mib, rem]: mib * 2^20 + rem bytes with
\* rem < 2^20 (a u64 of the code does not fit a 32-bit integer of TLC)
MiB == 1048576
Bytes(mib, rem) == [ mib |-> mib, rem |-> rem ]

\* info.capacity of each data device: 10 GiB and 4 MiB, 2^30 - 1 bytes,
\* 2^30 + 5 bytes
DevBytes(dev) ==
    CASE dev = "/dev/sdb" -> Bytes(10 * 1024 + 4, 0)
      [] dev = "/dev/sdc" -> Bytes(1023, MiB - 1)
      [] OTHER            -> Bytes(1024, 5)

\* vg.get_size() of the volume group made of the device: the whole 4 MiB
\* extents behind the 1 MiB metadata area
VgBytes(dev) == Bytes(((DevBytes(dev).mib - 1) \div 4) * 4, 0)

\* a weight that rounds to the nearest GiB
OsdWeightMilliRounded(size) == (size.mib + 512) \div 1024

\* gb_capacity = size / 1_073_741_824; osd_weight = gb_capacity as f64 * 0.001:
\* the weight in thousandths (2^30 = 1024 * 2^20, and rem < 2^20)
OsdWeightMilli(size) == size.mib \div 1024

IdleCall ==
    [ op |-> "none", dev |-> "", sim |-> FALSE, pc |-> "idle",
      result |-> "none", err |-> "none", at |-> "none", ret |-> FALSE,
      layout |-> "none", daemon |-> "none", status |-> "none",
      prev |-> [ op |-> "none", dev |-> "none", sim |-> FALSE,
                 result |-> "none", osd_id |-> None ],
      pre |-> [ vg |-> FALSE, marker |-> FALSE ],
      cands |-> << >>, journal |-> None, osd_id |-> None, osd_fsid |-> None,
      part |-> None, tags |-> << >>, ntags |-> 0, mount |-> None,
      trace |-> << >>, eff |-> {} ]

\* the partition table a journal device starts with: /dev/sdj carries one
\* partition, /dev/sdk none; each has one free extent with room for
\* MaxNewParts journals
InitGpt ==
    [ jd \in JournalDevs |->
        [ parts |-> IF jd = "/dev/sdj" THEN { 1 } ELSE {},
          free  |-> << MaxNewParts * (JournalBytes(JournalSizeMb) \div LbaSize) + 1 >> ] ]

\* the journal_devices a ceph.json may configure
Configs ==
    { None,
      Some(<< JournalDevice("/dev/sdj", Some(1), None, Some(1)) >>),
      Some(<< JournalDevice("/dev/sdj", None, None, Some(1)) >>),
      Some(<< JournalDevice("/dev/sdj", Some(1), None, Some(1)),
              JournalDevice("/dev/sdk", Some(1), None, None) >>) }

\* a filestore OSD 0 on LegacyDev, provisioned without a journal before
\* this process was started
LegacyDir == [ EmptyDir EXCEPT !.files = { "fsid", "keyring" },
                               !.type = Some("filestore\n"),
                               !.whoami = Some("0\n") ]

InitHost(legacy) ==
    /\ osds  = IF legacy THEN { 0 } ELSE {}
    /\ auth  = IF legacy THEN { 0 } ELSE {}
    /\ crush = IF legacy THEN { << 0, OsdWeightMilli(DevBytes(LegacyDev)) >> } ELSE {}
    /\ gpt = InitGpt
    /\ dirs = [ i \in OsdIds |-> IF legacy /\ i = 0 THEN Some(LegacyDir) ELSE None ]
    /\ vgs = [ d \in Devs |-> None ]
    /\ disks = [ d \in Devs |->
                   IF legacy /\ d = LegacyDev
                   THEN [ formatted |-> TRUE, mount |-> Some(MountPoint(0)) ]
                   ELSE [ formatted |-> d = UsedDev, mount |-> None ] ]

Init ==
    /\ version \in { Versions[i] : i \in 1..Len(Versions) }
    /\ config \in Configs
    /\ \E legacy \in BOOLEAN : InitHost(legacy)
    /\ call = [ p \in Procs |-> IdleCall ]
    /\ ncalls = 0
    /\ nfaults = 0
    /\ scratch = << >>


\* ------------------------------------------------------------------------
\* Partition-table adapter and journal device selector
\* ------------------------------------------------------------------------
\* BlkId::new(path).lookup_value("PARTUUID") on table set g: the GUID of
\* the partition the path names, None when the path names no partition
PartUuidOf(g, path) ==
    LET hit == { << jd, i >> \in JournalDevs \X (1..(MaxNewParts + 2)) :
                   i \in g[jd].parts /\ jd \o FormatU64(i) = path }
    IN  IF hit = {} THEN None
        ELSE LET h == CHOOSE x \in hit : TRUE IN Some(PartGuid(h[1], h[2]))

\* a comparison that lets an extent of exactly the size pass
EnoughFreeFromAtLeast(free, size, i) ==
    \E k \in i..Len(free) : free[k] * LbaSize >= size

\* enough_free_space: iterate over the free extents (length in sectors)
RECURSIVE EnoughFreeFrom(_, _, _)
EnoughFreeFrom(free, size, i) ==
    IF i > Len(free) THEN FALSE
    ELSE IF free[i] * LbaSize > size THEN TRUE
    ELSE EnoughFreeFrom(free, size, i + 1)

\* a check that finds room on every device
EnoughFreeSpaceAlways(table, size) == TRUE

EnoughFreeSpace(table, size) == EnoughFreeFrom(table.free, size, 1)

\* a key that does not tell the candidates apart
NumPartsKeyFlat(j) == 0

\* the sort key |j| j.num_partitions: Option<usize> orders None first
NumPartsKey(j) == IF IsSome(j.num_partitions) THEN The(j.num_partitions) + 1 ELSE 0

\* insert j after every element whose key is not larger: a stable sort
RECURSIVE InsertByKey(_, _)
InsertByKey(sorted, j) ==
    IF sorted = << >> THEN << j >>
    ELSE IF NumPartsKey(Head(sorted)) <= NumPartsKey(j)
         THEN << Head(sorted) >> \o InsertByKey(Tail(sorted), j)
         ELSE << j >> \o sorted

\* journal_devices.sort_by_key(|j| j.num_partitions)
RECURSIVE SortByNumPartitions(_)
SortByNumPartitions(js) ==
    IF js = << >> THEN << >>
    ELSE InsertByKey(SortByNumPartitions(SubSeq(js, 1, Len(js) - 1)), js[Len(js)])

\* .filter(enough_free_space ...): probeFails holds the devices whose table
\* cannot be read; the error is logged and the candidate dropped
RECURSIVE FilterFree(_, _, _, _)
FilterFree(js, g, size, probeFails) ==
    IF js = << >> THEN << >>
    ELSE LET j == Head(js)
             keep == j.device \notin probeFails /\ EnoughFreeSpace(g[j.device], size)
         IN  (IF keep THEN << j >> ELSE << >>)
             \o FilterFree(Tail(js), g, size, probeFails)

\* the candidate select_journal goes on to evaluate: .take(1).next()
SelectCandidate(cfg, g, size, probeFails) ==
    LET js == IF IsSome(cfg) THEN The(cfg) ELSE << >>
        ok == FilterFree(SortByNumPartitions(js), g, size, probeFails)
    IN  IF ok = << >> THEN None ELSE Some(ok[1])

\* Path::exists() of a journal entry l (an Option): it follows a symlink,
\* so a dangling link does not exist
EntryExists(g, l) ==
    IsSome(l) /\ (The(l).symlink => IsSome(PartUuidOf(g, The(l).target)))

\* what partition_in_use finds in one OSD directory d: "both", "none",
\* "notlink", "hit" or "miss"
ScanDir(g, d, guid) ==
    LET old == EntryExists(g, d.journal)
        new == EntryExists(g, d.wal)
        lnk == IF old THEN The(d.journal) ELSE The(d.wal)
    IN  IF old /\ new THEN "both"
        ELSE IF ~old /\ ~new THEN "none"
        ELSE IF ~lnk.symlink THEN "notlink"
        ELSE IF The(PartUuidOf(g, lnk.target)) = guid THEN "hit"
        ELSE "miss"

\* partition_in_use over the directories in the order read_dir yields
\* them: "true", "false" or "err"
RECURSIVE PartitionInUseFrom(_, _, _, _)
PartitionInUseFrom(g, ds, guid, i) ==
    IF i > Len(ds) THEN "false"
    ELSE LET r == ScanDir(g, ds[i], guid)
         IN  CASE r = "both"    -> "err"
               [] r = "none"    -> "false"
               [] r = "notlink" -> "err"
               [] r = "hit"     -> "true"
               [] OTHER         -> PartitionInUseFrom(g, ds, guid, i + 1)

PartitionInUse(g, ds, guid) == PartitionInUseFrom(g, ds, guid, 1)

\* a journal symlink to the given path
Link(path) == [ symlink |-> TRUE, target |-> path ]

\* Disk::add_partition + write: the lowest unused partition number, carved
\* from the first free extent that holds size bytes; None when none does
AddPartition(table, size) ==
    LET need == (size + LbaSize - 1) \div LbaSize
        fits == { k \in 1..Len(table.free) : table.free[k] >= need }
        k    == CHOOSE x \in fits : \A y \in fits : x <= y
        id   == CHOOSE n \in 1..(Cardinality(table.parts) + 1) : n \notin table.parts
                    /\ \A m \in 1..(n - 1) : m \in table.parts
    IN  IF fits = {} THEN None
        ELSE Some([ id |-> id,
                    table |-> [ parts |-> table.parts \cup { id },
                                free |-> [ table.free EXCEPT ![k] = @ - need ] ] ])


\* ------------------------------------------------------------------------
\* Calls: bookkeeping shared by every step
\* ------------------------------------------------------------------------
Running(c) == c.pc \notin { "idle", "done" }

\* externally serialized callers: nobody else is in the middle of a call
Quiet(p) == \A q \in Procs \ { p } : ~Running(call[q])

\* the step at pc was invoked: move on to next
Goto(c, name, next) == [ c EXCEPT !.pc = next, !.trace = Append(@, name) ]

\* a real (non-simulated) mutation of kind e was applied
Did(c, e) == [ c EXCEPT !.eff = @ \cup { e } ]

\* `?` on an Err: the call returns the error at once. kind is "query" (a
\* read-only collaborator query failed), "mutate" (a mutating collaborator
\* call failed) or "check" (the code's own check returned the Err)
Fail(c, name, kind) ==
    [ c EXCEPT !.pc = "done", !.result = "err", !.err = kind, !.at = c.pc,
               !.trace = Append(@, name) ]

Finish(c, name) ==
    [ c EXCEPT !.pc = "done", !.result = "ok", !.trace = Append(@, name) ]

SetCall(p, c) == call' = [ call EXCEPT ![p] = c ]

\* the OSD directories that exist, as read_dir may enumerate them: every
\* order of the existing ones
ExistingIds == { i \in OsdIds : IsSome(dirs[i]) }

DirOrders ==
    { o \in [ 1..Cardinality(ExistingIds) -> ExistingIds ] :
        \A a, b \in DOMAIN o : a # b => o[a] # o[b] }

DirsIn(o) == [ k \in DOMAIN o |-> The(dirs[o[k]]) ]

\* ------------------------------------------------------------------------
\* add_disk / remove_disk / safe_to_remove: entry
\* ------------------------------------------------------------------------
\* a dispatch that takes Luminous itself for a filestore version
AddLayoutAboveLuminous(v) ==
    IF VersionRank(v) > VersionRank("Luminous") THEN "bluestore" ELSE "filestore"

\* Backend::add_disk: bluestore at or above Luminous, filestore below
AddLayout(v) == IF VersionAtLeast(v, "Luminous") THEN "bluestore" ELSE "filestore"

\* what the caller keeps of the call it made before: the operation, its
\* device and mode, how it returned and the OSD id it had got hold of
Outcome(c) ==
    [ op |-> c.op, dev |-> c.dev, sim |-> c.sim, result |-> c.result,
      osd_id |-> c.osd_id ]

AddDisk(p, dev, sim) ==
    /\ ~Running(call[p])
    /\ ncalls < MaxCalls
    /\ LET lay == AddLayout(version)
       IN  SetCall(p, [ IdleCall EXCEPT !.op = "add", !.dev = dev, !.sim = sim,
                          !.layout = lay, !.prev = Outcome(call[p]),
                          !.pc = IF lay = "bluestore" THEN "b_select_journal"
                                 ELSE "f_format" ])
    /\ ncalls' = ncalls + 1
    /\ UNCHANGED << version, config, hostVars, nfaults, scratch >>


\* ------------------------------------------------------------------------
\* select_journal / evaluate_journal / create_journal, step by step
\* ------------------------------------------------------------------------
\* where the caller of select_journal goes on: add_bluestore_osd calls it
\* first, add_filestore_osd after mounting the device
AfterJournal(c) == IF c.layout = "bluestore" THEN "b_osd_create" ELSE "f_mkfs"

\* select_journal up to `.take(1).next()`: read osd_journal_size, sort the
\* candidates, drop those without room. A candidate whose table cannot be
\* probed (probeFails) is dropped as well. Nothing here looks at simulate.
SelectJournal(p) ==
    LET c == call[p]
        devs == IF IsSome(config)
                THEN { The(config)[k].device : k \in DOMAIN The(config) } ELSE {}
    IN  /\ c.pc \in { "b_select_journal", "f_select_journal" }
        /\ \E probeFails \in SUBSET devs :
             /\ nfaults + Cardinality(probeFails) <= MaxFaults
             /\ nfaults' = nfaults + Cardinality(probeFails)
             /\ LET cand == SelectCandidate(config, gpt,
                                JournalBytes(JournalSizeMb), probeFails)
                IN  IF IsNone(cand)
                    THEN SetCall(p, Goto(c, "select_journal", AfterJournal(c)))
                    ELSE SetCall(p, [ Goto(c, "select_journal", "sj_eval")
                                        EXCEPT !.cands = << The(cand) >> ])
        /\ UNCHANGED << version, config, hostVars, ncalls, scratch >>

\* an evaluation that goes on without a journal when the partition is
\* missing
EvalJournalNotFoundFallsBack(p) ==
    LET c == call[p]
        j == c.cands[1]
    IN  /\ c.pc = "sj_eval"
        /\ IsSome(j.partition_id)
        /\ The(j.partition_id) \notin gpt[j.device].parts
        /\ SetCall(p, Goto(c, "evaluate_journal", AfterJournal(c)))
        /\ UNCHANGED << version, config, hostVars, ncalls, nfaults, scratch >>

\* evaluate_journal, the (device, Some(part_id)) arm: the partition is
\* missing from the table
EvalJournalNotFound(p) ==
    LET c == call[p]
        j == c.cands[1]
    IN  /\ c.pc = "sj_eval"
        /\ IsSome(j.partition_id)
        /\ The(j.partition_id) \notin gpt[j.device].parts
        /\ SetCall(p, Fail(c, "evaluate_journal", "check"))
        /\ UNCHANGED << version, config, hostVars, ncalls, nfaults, scratch >>

\* a scan that waits while another call is in flight
EvalJournalScanLocked(p) ==
    LET c == call[p]
        j == c.cands[1]
    IN  /\ Quiet(p)
        /\ c.pc = "sj_eval"
        /\ IsSome(j.partition_id)
        /\ The(j.partition_id) \in gpt[j.device].parts
        /\ \E o \in DirOrders :
             LET r == PartitionInUse(gpt, DirsIn(o),
                                     PartGuid(j.device, The(j.partition_id)))
             IN  CASE r = "false" ->
                        SetCall(p, [ Goto(c, "evaluate_journal", AfterJournal(c))
                                       EXCEPT !.journal =
                                         Some(JournalDevice(j.device, j.partition_id,
                                                            None, Some(1))) ])
                   [] r = "true" ->
                        SetCall(p, Goto(c, "evaluate_journal", "sj_create"))
                   [] OTHER ->
                        SetCall(p, Fail(c, "partition_in_use", "check"))
        /\ UNCHANGED << version, config, hostVars, ncalls, nfaults, scratch >>

\* evaluate_journal, the (device, Some(part_id)) arm: the partition
\* exists; partition_in_use decides between reuse and a new partition,
\* and its Err is returned through `?` (the trace then ends with
\* partition_in_use)
EvalJournalScan(p) ==
    LET c == call[p]
        j == c.cands[1]
    IN  /\ c.pc = "sj_eval"
        /\ IsSome(j.partition_id)
        /\ The(j.partition_id) \in gpt[j.device].parts
        /\ \E o \in DirOrders :
             LET r == PartitionInUse(gpt, DirsIn(o),
                                     PartGuid(j.device, The(j.partition_id)))
             IN  CASE r = "false" ->
                        SetCall(p, [ Goto(c, "evaluate_journal", AfterJournal(c))
                                       EXCEPT !.journal =
                                         Some(JournalDevice(j.device, j.partition_id,
                                                            None, Some(1))) ])
                   [] r = "true" ->
                        SetCall(p, Goto(c, "evaluate_journal", "sj_create"))
                   [] OTHER ->
                        SetCall(p, Fail(c, "partition_in_use", "check"))
        /\ UNCHANGED << version, config, hostVars, ncalls, nfaults, scratch >>

\* an evaluation that hands the bare device back when no partition is named
EvalJournalNoIdReuses(p) ==
    LET c == call[p]
        j == c.cands[1]
    IN  /\ c.pc = "sj_eval"
        /\ IsNone(j.partition_id)
        /\ SetCall(p, [ Goto(c, "evaluate_journal", AfterJournal(c))
                          EXCEPT !.journal =
                            Some(JournalDevice(j.device, None, None, Some(1))) ])
        /\ UNCHANGED << version, config, hostVars, ncalls, nfaults, scratch >>

\* evaluate_journal, the (device, None) arm: always a new partition
EvalJournalNoId(p) ==
    LET c == call[p]
    IN  /\ c.pc = "sj_eval"
        /\ IsNone(c.cands[1].partition_id)
        /\ SetCall(p, Goto(c, "evaluate_journal", "sj_create"))
        /\ UNCHANGED << version, config, hostVars, ncalls, nfaults, scratch >>

\* create_journal: disk.add_partition(...) and disk.write(). The write may
\* answer Ok without the table on the device holding the new partition
\* (lost): that is what the read-back of create_journal looks for.
CreateJournal(p) ==
    LET c == call[p]
        jd == c.cands[1].device
        r == AddPartition(gpt[jd], JournalBytes(JournalSizeMb))
    IN  /\ c.pc = "sj_create"
        /\ \E lost \in BOOLEAN :
             /\ lost => (IsSome(r) /\ nfaults < MaxFaults)
             /\ nfaults' = IF lost THEN nfaults + 1 ELSE nfaults
             /\ IF IsNone(r)
                THEN /\ SetCall(p, Fail(c, "create_journal", "mutate"))
                     /\ UNCHANGED gpt
                ELSE IF lost
                THEN /\ SetCall(p, [ Goto(c, "create_journal", "sj_reread")
                                       EXCEPT !.part = Some(The(r).id) ])
                     /\ UNCHANGED gpt
                ELSE /\ gpt' = [ gpt EXCEPT ![jd] = The(r).table ]
                     /\ SetCall(p, [ Did(Goto(c, "create_journal", "sj_reread"),
                                         "partition")
                                       EXCEPT !.part = Some(The(r).id) ])
        /\ UNCHANGED << version, config, osds, auth, crush, dirs, vgs, disks,
                        ncalls, scratch >>

\* a read-back that does not look for the partition it wrote
RereadJournalUnverified(p) ==
    LET c == call[p]
        jd == c.cands[1].device
        id == The(c.part)
    IN  /\ c.pc = "sj_reread"
        /\ SetCall(p, [ Goto(c, "update_partition_cache", AfterJournal(c))
                          EXCEPT !.journal =
                            Some(JournalDevice(jd, Some(id), Some(PartGuid(jd, id)),
                                               Some(Cardinality(gpt[jd].parts)))) ])
        /\ UNCHANGED << version, config, hostVars, ncalls, nfaults, scratch >>

\* create_journal after the write: update_partition_cache, the table read
\* back, and update_num_partitions of evaluate_journal
RereadJournal(p) ==
    LET c == call[p]
        jd == c.cands[1].device
        id == The(c.part)
    IN  /\ c.pc = "sj_reread"
        /\ IF id \in gpt[jd].parts
           THEN SetCall(p, [ Goto(c, "update_partition_cache", AfterJournal(c))
                               EXCEPT !.journal =
                                 Some(JournalDevice(jd, Some(id), Some(PartGuid(jd, id)),
                                                    Some(Cardinality(gpt[jd].parts)))) ])
           ELSE SetCall(p, Fail(c, "update_partition_cache", "check"))
        /\ UNCHANGED << version, config, hostVars, ncalls, nfaults, scratch >>


\* ------------------------------------------------------------------------
\* add_bluestore_osd, step by step
\* ------------------------------------------------------------------------
\* the id the cluster hands out: the lowest one that is not allocated
NextOsdId == CHOOSE i \in OsdIds \ osds : \A k \in OsdIds \ osds : i <= k

\* osd_create(&cluster, id, simulate) and uuid::Uuid::new_v4(). A
\* simulated osd_create allocates nothing and answers id 0.
OsdCreate(p) ==
    LET c == call[p]
    IN  /\ c.pc \in { "b_osd_create", "f_osd_create" }
        /\ \E f \in FsidPool :
             LET next == IF c.layout = "bluestore" THEN "b_lvm_probe" ELSE "f_mount"
                 fs == IF c.layout = "bluestore" THEN Some(f) ELSE None
             IN  IF c.sim
                 THEN /\ SetCall(p, [ Goto(c, "osd_create", next)
                                        EXCEPT !.osd_id = Some(0), !.osd_fsid = fs ])
                      /\ UNCHANGED osds
                 ELSE /\ OsdIds \ osds # {}
                      /\ osds' = osds \cup { NextOsdId }
                      /\ SetCall(p, [ Did(Goto(c, "osd_create", next), "cluster")
                                        EXCEPT !.osd_id = Some(NextOsdId),
                                               !.osd_fsid = fs ])
        /\ UNCHANGED << version, config, auth, crush, gpt, dirs, vgs, disks,
                        ncalls, nfaults, scratch >>

\* create_lvm: get_device_info, Lvm::new, lvm.scan
LvmProbe(p) ==
    LET c == call[p]
    IN  /\ c.pc = "b_lvm_probe"
        /\ SetCall(p, Goto(c, "create_lvm", "b_vg"))
        /\ UNCHANGED << version, config, hostVars, ncalls, nfaults, scratch >>

\* create_lvm: vg_create, vg.extend(dev_path), vg.write. The volume manager
\* refuses a device that already backs a volume group or is mounted.
VgCreate(p) ==
    LET c == call[p]
    IN  /\ c.pc = "b_vg"
        /\ IF IsSome(vgs[c.dev]) \/ IsSome(disks[c.dev].mount)
           THEN /\ SetCall(p, Fail(c, "vg_create", "mutate"))
                /\ UNCHANGED vgs
           ELSE /\ vgs' = [ vgs EXCEPT ![c.dev] = Some([ lvs |-> << >> ]) ]
                /\ SetCall(p, Did(Goto(c, "vg_create", "b_lv"), "vg"))
        /\ UNCHANGED << version, config, osds, auth, crush, gpt, dirs, disks,
                        ncalls, nfaults, scratch >>

\* create_lvm: vg.create_lv_linear(&lv_name, vg.get_size() - 10_485_760)
LvCreate(p) ==
    LET c == call[p]
        vg == The(vgs[c.dev])
    IN  /\ c.pc = "b_lv"
        /\ vgs' = [ vgs EXCEPT ![c.dev] = Some([ vg EXCEPT !.lvs = Append(@, << >>) ]) ]
        /\ SetCall(p, Did(Goto(c, "create_lv_linear", "b_tags"), "lv"))
        /\ UNCHANGED << version, config, osds, auth, crush, gpt, dirs, disks,
                        ncalls, nfaults, scratch >>

\* get_device_info(dev).media_type, here a property of the device
MediaOf(dev) == IF dev = "/dev/sdb" THEN "SolidState" ELSE "Rotational"

\* create_lvm_tags up to the loop: the tag vector is built; the journal's
\* partition uuid is probed when the JournalDevice does not carry it
BuildTags(p) ==
    LET c == call[p]
        j == c.journal
        probed == IF IsSome(j) /\ IsNone(The(j).partition_uuid)
                  THEN PartUuidOf(gpt, JournalDisplay(The(j))) ELSE None
        wal == IF IsNone(j) THEN ClusterFsid
               ELSE IF IsSome(The(j).partition_uuid) THEN The(The(j).partition_uuid)
               ELSE The(probed)
    IN  /\ c.pc = "b_tags"
        /\ IF IsSome(j) /\ IsNone(The(j).partition_uuid) /\ IsNone(probed)
           THEN SetCall(p, Fail(c, "create_lvm_tags", "query"))
           ELSE SetCall(p, [ Goto(c, "create_lvm_tags", "b_add_tag")
                               EXCEPT !.ntags = 0,
                                      !.tags = LvmTagList(LvDevName(c.dev, The(c.osd_fsid)),
                                                 The(c.osd_fsid), The(c.osd_id),
                                                 ClusterFsid, LvUuid, j, wal,
                                                 MediaOf(c.dev)) ])
        /\ UNCHANGED << version, config, hostVars, ncalls, nfaults, scratch >>

\* a loop that writes the tags from the last one to the first
AddTagReversed(p) ==
    LET c == call[p]
        vg == The(vgs[c.dev])
        k == c.ntags + 1
        lvs2 == [ vg.lvs EXCEPT ![Len(vg.lvs)] = Append(@, c.tags[Len(c.tags) - k + 1]) ]
    IN  /\ c.pc = "b_add_tag"
        /\ k <= Len(c.tags)
        /\ vgs' = [ vgs EXCEPT ![c.dev] = Some([ vg EXCEPT !.lvs = lvs2 ]) ]
        /\ SetCall(p, [ Did(c, "tag") EXCEPT
                          !.ntags = k,
                          !.trace = Append(@, "add_tag"),
                          !.pc = IF k = Len(c.tags) THEN "b_mkdir" ELSE "b_add_tag" ])
        /\ UNCHANGED << version, config, osds, auth, crush, gpt, dirs, disks,
                        ncalls, nfaults, scratch >>

\* one iteration of `for t in tags { lv.add_tag(&t)?; }`
AddTag(p) ==
    LET c == call[p]
        vg == The(vgs[c.dev])
        k == c.ntags + 1
        lvs2 == [ vg.lvs EXCEPT ![Len(vg.lvs)] = Append(@, c.tags[k]) ]
    IN  /\ c.pc = "b_add_tag"
        /\ k <= Len(c.tags)
        /\ vgs' = [ vgs EXCEPT ![c.dev] = Some([ vg EXCEPT !.lvs = lvs2 ]) ]
        /\ SetCall(p, [ Did(c, "tag") EXCEPT
                          !.ntags = k,
                          !.trace = Append(@, "add_tag"),
                          !.pc = IF k = Len(c.tags) THEN "b_mkdir" ELSE "b_add_tag" ])
        /\ UNCHANGED << version, config, osds, auth, crush, gpt, dirs, disks,
                        ncalls, nfaults, scratch >>


\* the content of the directory of OSD id after f is applied to it
DirUpdate(id, d) == dirs' = [ dirs EXCEPT ![id] = Some(d) ]

\* if !mount_point.exists() { create_dir(&mount_point)?; }
MakeMountPoint(p) ==
    LET c == call[p]
        id == The(c.osd_id)
    IN  /\ c.pc = "b_mkdir"
        /\ IF IsSome(dirs[id])
           THEN /\ SetCall(p, Goto(c, "mount_point", "b_fsid"))
                /\ UNCHANGED dirs
           ELSE /\ DirUpdate(id, EmptyDir)
                /\ SetCall(p, Did(Goto(c, "mount_point", "b_fsid"), "mkdir"))
        /\ UNCHANGED << version, config, osds, auth, crush, gpt, vgs, disks,
                        ncalls, nfaults, scratch >>

\* File::create(&fsid_path) and write_all of the osd fsid
WriteFsid(p) ==
    LET c == call[p]
        id == The(c.osd_id)
    IN  /\ c.pc = "b_fsid"
        /\ DirUpdate(id, [ The(dirs[id]) EXCEPT !.files = @ \cup { "fsid" } ])
        /\ SetCall(p, Did(Goto(c, "fsid", "b_resolve"), "file"))
        /\ UNCHANGED << version, config, osds, auth, crush, gpt, vgs, disks,
                        ncalls, nfaults, scratch >>

\* resolve_lvm_device(&lv_dev_name)
ResolveLvm(p) ==
    LET c == call[p]
    IN  /\ c.pc = "b_resolve"
        /\ SetCall(p, Goto(c, "resolve_lvm_device", "b_link_block"))
        /\ UNCHANGED << version, config, hostVars, ncalls, nfaults, scratch >>

\* symlink(&lv_dev_name, mount_point.join("block")): EEXIST when the name
\* is taken
LinkBlock(p) ==
    LET c == call[p]
        id == The(c.osd_id)
        d == The(dirs[id])
        next == IF IsSome(c.journal) THEN "b_link_wal" ELSE "b_monmap"
    IN  /\ c.pc = "b_link_block"
        /\ IF IsSome(d.block)
           THEN /\ SetCall(p, Fail(c, "symlink_block", "mutate"))
                /\ UNCHANGED dirs
           ELSE /\ DirUpdate(id, [ d EXCEPT
                      !.block = Some(LvDevName(c.dev, The(c.osd_fsid))) ])
                /\ SetCall(p, Did(Goto(c, "symlink_block", next), "symlink"))
        /\ UNCHANGED << version, config, osds, auth, crush, gpt, vgs, disks,
                        ncalls, nfaults, scratch >>

\* symlink(journal, mount_point.join("block.wal")) when a journal is used
LinkWal(p) ==
    LET c == call[p]
        id == The(c.osd_id)
        d == The(dirs[id])
    IN  /\ c.pc = "b_link_wal"
        /\ IF IsSome(d.wal)
           THEN /\ SetCall(p, Fail(c, "symlink_wal", "mutate"))
                /\ UNCHANGED dirs
           ELSE /\ DirUpdate(id, [ d EXCEPT
                      !.wal = Some(Link(JournalDisplay(The(c.journal)))) ])
                /\ SetCall(p, Did(Goto(c, "symlink_wal", "b_chown_wal"), "symlink"))
        /\ UNCHANGED << version, config, osds, auth, crush, gpt, vgs, disks,
                        ncalls, nfaults, scratch >>

\* Passwd::from_name("ceph") and change_permissions of the journal
ChownWal(p) ==
    LET c == call[p]
    IN  /\ c.pc = "b_chown_wal"
        /\ SetCall(p, Did(Goto(c, "chown_journal", "b_monmap"), "chown"))
        /\ UNCHANGED << version, config, hostVars, ncalls, nfaults, scratch >>

\* mon_getmap, then File::create(&activate_path) and write_all
WriteMonmap(p) ==
    LET c == call[p]
        id == The(c.osd_id)
    IN  /\ c.pc = "b_monmap"
        /\ DirUpdate(id, [ The(dirs[id]) EXCEPT !.files = @ \cup { "activate.monmap" } ])
        /\ SetCall(p, Did(Goto(c, "activate_monmap", "b_chown"), "file"))
        /\ UNCHANGED << version, config, osds, auth, crush, gpt, vgs, disks,
                        ncalls, nfaults, scratch >>

\* change_permissions(&[backer_device, activate_path, mount_point, fsid_path])
ChownAll(p) ==
    LET c == call[p]
    IN  /\ c.pc = "b_chown"
        /\ SetCall(p, Did(Goto(c, "change_permissions", "b_auth_add"), "chown"))
        /\ UNCHANGED << version, config, hostVars, ncalls, nfaults, scratch >>

\* osd_auth_add(&cluster, new_osd_id, simulate)
AuthAdd(p) ==
    LET c == call[p]
        id == The(c.osd_id)
        next == IF c.layout = "bluestore" THEN "b_auth_get" ELSE "f_auth_get"
    IN  /\ c.pc \in { "b_auth_add", "f_auth_add" }
        /\ IF c.sim
           THEN /\ SetCall(p, Goto(c, "osd_auth_add", next))
                /\ UNCHANGED auth
           ELSE /\ auth' = auth \cup { id }
                /\ SetCall(p, Did(Goto(c, "osd_auth_add", next), "cluster"))
        /\ UNCHANGED << version, config, osds, crush, gpt, dirs, vgs, disks,
                        ncalls, nfaults, scratch >>

\* auth_get_key(&cluster, "osd", id)
AuthGetKey(p) ==
    LET c == call[p]
        next == IF c.layout = "bluestore" THEN "b_keyring" ELSE "f_keyring"
    IN  /\ c.pc \in { "b_auth_get", "f_auth_get" }
        /\ SetCall(p, Goto(c, "auth_get_key", next))
        /\ UNCHANGED << version, config, hostVars, ncalls, nfaults, scratch >>

\* save_keyring: Err when the OSD directory does not exist; the keyring is
\* written and chowned only when not simulating
SaveKeyring(p) ==
    LET c == call[p]
        id == The(c.osd_id)
        next == IF c.layout = "bluestore" THEN "b_mkfs" ELSE "f_crush_add"
    IN  /\ c.pc \in { "b_keyring", "f_keyring" }
        /\ IF IsNone(dirs[id])
           THEN /\ SetCall(p, Fail(c, "save_keyring", "check"))
                /\ UNCHANGED dirs
           ELSE IF c.sim
           THEN /\ SetCall(p, Goto(c, "save_keyring", next))
                /\ UNCHANGED dirs
           ELSE /\ DirUpdate(id, [ The(dirs[id]) EXCEPT !.files = @ \cup { "keyring" } ])
                /\ SetCall(p, Did(Did(Goto(c, "save_keyring", next), "file"), "chown"))
        /\ UNCHANGED << version, config, osds, auth, crush, gpt, vgs, disks,
                        ncalls, nfaults, scratch >>


\* what ceph-osd --mkfs leaves in the OSD directory: the whoami and type
\* markers.  The journal is handed over as the --osd-journal argument only;
\* no symlink is made for it in the directory
MkfsDir(d, id, journal, bluestore) ==
    [ d EXCEPT !.whoami = Some(FormatU64(id) \o "\n"),
               !.type = Some(IF bluestore THEN "bluestore\n" ELSE "filestore\n") ]

\* ceph_mkfs(...): the command line is built and, unless simulating,
\* ceph-osd --mkfs is run
CephMkfs(p) ==
    LET c == call[p]
        id == The(c.osd_id)
        blue == c.layout = "bluestore"
        next == IF blue THEN "b_prime" ELSE "f_auth_add"
    IN  /\ c.pc \in { "b_mkfs", "f_mkfs" }
        /\ IF c.sim
           THEN /\ SetCall(p, Goto(c, "ceph_mkfs", next))
                /\ UNCHANGED dirs
           ELSE IF IsNone(dirs[id])
           THEN /\ SetCall(p, Fail(c, "ceph_mkfs", "mutate"))
                /\ UNCHANGED dirs
           ELSE /\ DirUpdate(id, MkfsDir(The(dirs[id]), id, c.journal, blue))
                /\ SetCall(p, Did(Goto(c, "ceph_mkfs", next), "process"))
        /\ UNCHANGED << version, config, osds, auth, crush, gpt, vgs, disks,
                        ncalls, nfaults, scratch >>

\* a priming after which the service is enabled at once
BluestoreToolSkipsPlacement(p) ==
    LET c == call[p]
    IN  /\ c.pc = "b_prime"
        /\ SetCall(p, IF c.sim THEN Goto(c, "ceph_bluestore_tool", "b_enable")
                      ELSE Did(Goto(c, "ceph_bluestore_tool", "b_enable"), "process"))
        /\ UNCHANGED << version, config, hostVars, ncalls, nfaults, scratch >>

\* ceph_bluestore_tool(&lv_dev_name, &mount_point, simulate)
BluestoreTool(p) ==
    LET c == call[p]
    IN  /\ c.pc = "b_prime"
        /\ SetCall(p, IF c.sim THEN Goto(c, "ceph_bluestore_tool", "b_crush_add")
                      ELSE Did(Goto(c, "ceph_bluestore_tool", "b_crush_add"), "process"))
        /\ UNCHANGED << version, config, hostVars, ncalls, nfaults, scratch >>

\* Host::new, the weight, osd_crush_add(&cluster, id, weight, host, simulate):
\* the weight comes from vg.get_size() in add_bluestore_osd and from
\* info.capacity in add_filestore_osd
CrushAdd(p) ==
    LET c == call[p]
        id == The(c.osd_id)
        size == IF c.layout = "bluestore" THEN VgBytes(c.dev) ELSE DevBytes(c.dev)
        w == OsdWeightMilli(size)
        next == IF c.layout = "bluestore" THEN "b_enable" ELSE "f_fstab"
    IN  /\ c.pc \in { "b_crush_add", "f_crush_add" }
        /\ IF c.sim
           THEN /\ SetCall(p, Goto(c, "osd_crush_add", next))
                /\ UNCHANGED crush
           ELSE /\ crush' = { e \in crush : e[1] # id } \cup { << id, w >> }
                /\ SetCall(p, Did(Goto(c, "osd_crush_add", next), "cluster"))
        /\ UNCHANGED << version, config, osds, auth, gpt, dirs, vgs, disks,
                        ncalls, nfaults, scratch >>

\* a systemctl_enable that runs the command whatever simulate says
SystemctlEnableAlways(p) ==
    LET c == call[p]
    IN  /\ c.pc = "b_enable"
        /\ SetCall(p, Did(Goto(c, "systemctl_enable", "b_start"), "service"))
        /\ UNCHANGED << version, config, hostVars, ncalls, nfaults, scratch >>

\* systemctl_enable(new_osd_id, &osd_fsid, simulate)
SystemctlEnable(p) ==
    LET c == call[p]
    IN  /\ c.pc = "b_enable"
        /\ SetCall(p, IF c.sim THEN Goto(c, "systemctl_enable", "b_start")
                      ELSE Did(Goto(c, "systemctl_enable", "b_start"), "service"))
        /\ UNCHANGED << version, config, hostVars, ncalls, nfaults, scratch >>

Daemons == { "Systemd", "Upstart", "Unknown" }

\* setup_osd_init: detect_daemon, then the start command of that init
\* system unless simulating; an unknown init system is an error
SetupOsdInit(p) ==
    LET c == call[p]
    IN  /\ c.pc \in { "b_start", "f_start" }
        /\ \E d \in Daemons :
             LET c1 == [ c EXCEPT !.daemon = d ]
             IN  IF d = "Unknown"
                 THEN SetCall(p, Fail(c1, "setup_osd_init", "check"))
                 ELSE IF c.sim
                 THEN SetCall(p, Finish(c1, "setup_osd_init"))
                 ELSE SetCall(p, Did(Finish(c1, "setup_osd_init"), "service"))
        /\ UNCHANGED << version, config, hostVars, ncalls, nfaults, scratch >>

\* ------------------------------------------------------------------------
\* add_filestore_osd: the steps of its own
\* ------------------------------------------------------------------------
\* if !simulate { format_block_device(dev_path, &xfs_options)?; settle_udev }
\* mkfs.xfs refuses a mounted device
FormatDevice(p) ==
    LET c == call[p]
    IN  /\ c.pc = "f_format"
        /\ IF c.sim
           THEN /\ SetCall(p, Goto(c, "format_block_device", "f_probe"))
                /\ UNCHANGED disks
           ELSE IF IsSome(disks[c.dev].mount)
           THEN /\ SetCall(p, Fail(c, "format_block_device", "mutate"))
                /\ UNCHANGED disks
           ELSE /\ disks' = [ disks EXCEPT ![c.dev].formatted = TRUE ]
                /\ SetCall(p, Did(Goto(c, "format_block_device", "f_probe"), "format"))
        /\ UNCHANGED << version, config, osds, auth, crush, gpt, dirs, vgs,
                        ncalls, nfaults, scratch >>

\* a probe that does not look at the filesystem UUID
ProbeDeviceIgnoresUuid(p) ==
    LET c == call[p]
    IN  /\ c.pc = "f_probe"
        /\ SetCall(p, Goto(c, "get_device_info", "f_osd_create"))
        /\ UNCHANGED << version, config, hostVars, ncalls, nfaults, scratch >>

\* get_device_info(dev_path); a device without a filesystem UUID is an
\* error. The result of settle_udev is dropped (`let _ =`), so the probe
\* that follows a format may not show the new filesystem's UUID yet (lag).
ProbeDevice(p) ==
    LET c == call[p]
    IN  /\ c.pc = "f_probe"
        /\ \E lag \in BOOLEAN :
             /\ lag => (~c.sim /\ nfaults < MaxFaults)
             /\ nfaults' = IF lag THEN nfaults + 1 ELSE nfaults
             /\ SetCall(p, IF disks[c.dev].formatted /\ ~lag
                           THEN Goto(c, "get_device_info", "f_osd_create")
                           ELSE Fail(c, "get_device_info", "check"))
        /\ UNCHANGED << version, config, hostVars, ncalls, scratch >>

\* if !simulate { if !mount_point.exists() { create_dir }; mount_device }
\* The mounted filesystem is what the directory then shows.
MountDevice(p) ==
    LET c == call[p]
        id == The(c.osd_id)
    IN  /\ c.pc = "f_mount"
        /\ IF c.sim
           THEN /\ SetCall(p, Goto(c, "mount_device", "f_select_journal"))
                /\ UNCHANGED << dirs, disks >>
           ELSE /\ DirUpdate(id, EmptyDir)
                /\ disks' = [ disks EXCEPT ![c.dev].mount = Some(MountPoint(id)) ]
                /\ SetCall(p, [ Goto(c, "mount_device", "f_select_journal") EXCEPT
                                  !.eff = @ \cup { "mount" } \cup
                                          (IF IsNone(dirs[id]) THEN { "mkdir" } ELSE {}) ])
        /\ UNCHANGED << version, config, osds, auth, crush, gpt, vgs,
                        ncalls, nfaults, scratch >>

\* add_osd_to_fstab(&info, new_osd_id, simulate)
AddToFstab(p) ==
    LET c == call[p]
    IN  /\ c.pc = "f_fstab"
        /\ SetCall(p, IF c.sim THEN Goto(c, "add_osd_to_fstab", "f_start")
                      ELSE Did(Goto(c, "add_osd_to_fstab", "f_start"), "fstab"))
        /\ UNCHANGED << version, config, hostVars, ncalls, nfaults, scratch >>


\* ------------------------------------------------------------------------
\* remove_disk, remove_bluestore_osd, is_filestore, remove_filestore_osd
\* ------------------------------------------------------------------------
\* Backend::remove_disk: remove_bluestore_osd at or above Luminous,
\* remove_filestore_osd below
RemoveEntry(v) == IF VersionAtLeast(v, "Luminous") THEN "r_lvm" ELSE "rf_mountpoint"

\* the OSD directory a mount point path names, None for any other path
DirAt(path) ==
    LET hit == { i \in OsdIds : MountPoint(i) = path /\ IsSome(dirs[i]) }
    IN  IF hit = {} THEN None ELSE Some(The(dirs[CHOOSE i \in hit : TRUE]))

\* the content of file `name` ("type" or "whoami") under a mount point
FileAt(path, name) ==
    IF IsNone(DirAt(path)) THEN None
    ELSE IF name = "type" THEN The(DirAt(path)).type
    ELSE The(DirAt(path)).whoami

\* the device is mounted and the type file under its mount point reads
\* "filestore" once trimmed
HasFilestoreMarker(dev) ==
    LET m == disks[dev].mount
    IN  /\ IsSome(m)
        /\ IsSome(FileAt(The(m), "type"))
        /\ Trim(The(FileAt(The(m), "type"))) = "filestore"

RemoveDisk(p, dev, sim) ==
    /\ ~Running(call[p])
    /\ ncalls < MaxCalls
    /\ SetCall(p, [ IdleCall EXCEPT !.op = "remove", !.dev = dev, !.sim = sim,
                      !.prev = Outcome(call[p]),
                      !.pre = [ vg |-> IsSome(vgs[dev]),
                                marker |-> HasFilestoreMarker(dev) ],
                      !.layout = IF RemoveEntry(version) = "r_lvm"
                                 THEN "bluestore" ELSE "filestore",
                      !.pc = RemoveEntry(version) ])
    /\ ncalls' = ncalls + 1
    /\ UNCHANGED << version, config, hostVars, nfaults, scratch >>

\* Lvm::new, lvm.scan, lvm.vg_name_from_device(dev_path)
VgLookup(p) ==
    LET c == call[p]
    IN  /\ c.pc = "r_lvm"
        /\ SetCall(p, Goto(c, "vg_name_from_device",
                           IF IsSome(vgs[c.dev]) THEN "r_tags" ELSE "r_mountpoint"))
        /\ UNCHANGED << version, config, hostVars, ncalls, nfaults, scratch >>

\* is_filestore: get_mountpoint(dev_path)
IsFilestoreMountpoint(p) ==
    LET c == call[p]
        m == disks[c.dev].mount
    IN  /\ c.pc = "r_mountpoint"
        /\ SetCall(p, [ Goto(c, "is_filestore",
                             IF IsSome(m) THEN "r_type" ELSE "r_tmp_mount")
                          EXCEPT !.mount = m ])
        /\ UNCHANGED << version, config, hostVars, ncalls, nfaults, scratch >>

\* is_filestore, the device is not mounted: TempDir::new, get_device_info,
\* mount_device(&dev_info, &tmp_path); a device without a filesystem does
\* not mount. simulate is not looked at.
IsFilestoreTempMount(p) ==
    LET c == call[p]
    IN  /\ c.pc = "r_tmp_mount"
        /\ IF disks[c.dev].formatted
           THEN /\ disks' = [ disks EXCEPT ![c.dev].mount = Some(TempMount) ]
                /\ SetCall(p, [ Did(Did(Goto(c, "mount_device", "r_type"),
                                        "tempdir"), "mount")
                                  EXCEPT !.mount = Some(TempMount) ])
           ELSE /\ SetCall(p, Did(Fail(c, "mount_device", "mutate"), "tempdir"))
                /\ UNCHANGED disks
        /\ UNCHANGED << version, config, osds, auth, crush, gpt, dirs, vgs,
                        ncalls, nfaults, scratch >>

\* is_filestore: the type marker decides. Without it (or with another
\* content) remove_bluestore_osd returns its "No volume group" error.
IsFilestoreType(p) ==
    LET c == call[p]
        t == FileAt(The(c.mount), "type")
    IN  /\ c.pc = "r_type"
        /\ SetCall(p, IF IsSome(t) /\ Trim(The(t)) = "filestore"
                      THEN [ Goto(c, "type_marker", "rf_mountpoint")
                               EXCEPT !.layout = "filestore" ]
                      ELSE Fail(c, "type_marker", "check"))
        /\ UNCHANGED << version, config, hostVars, ncalls, nfaults, scratch >>

\* a read-back that goes on with OSD 0 when the tags name no OSD
ReadTagsLenient(p) ==
    LET c == call[p]
        r == ReadOsdTags(The(vgs[c.dev]).lvs)
    IN  /\ c.pc = "r_tags"
        /\ SetCall(p, [ Goto(c, "get_tags", "r_out")
                          EXCEPT !.osd_id = IF IsSome(r.osd_id) THEN r.osd_id ELSE Some(0),
                                 !.osd_fsid = r.osd_fsid ])
        /\ UNCHANGED << version, config, hostVars, ncalls, nfaults, scratch >>

\* vg_open, list_lvs and the tag read-back loop; Err when a value does not
\* parse or when osd_id or osd_fsid was not found
ReadTags(p) ==
    LET c == call[p]
        r == ReadOsdTags(The(vgs[c.dev]).lvs)
    IN  /\ c.pc = "r_tags"
        /\ SetCall(p, IF r.err \/ IsNone(r.osd_id) \/ IsNone(r.osd_fsid)
                      THEN Fail(c, "get_tags", "check")
                      ELSE [ Goto(c, "get_tags", "r_out")
                               EXCEPT !.osd_id = r.osd_id, !.osd_fsid = r.osd_fsid ])
        /\ UNCHANGED << version, config, hostVars, ncalls, nfaults, scratch >>

\* remove_filestore_osd: get_mountpoint, or a fresh TempDir when the
\* device is not mounted (created whatever simulate says)
FilestoreMountpoint(p) ==
    LET c == call[p]
        m == disks[c.dev].mount
    IN  /\ c.pc = "rf_mountpoint"
        /\ SetCall(p, IF IsSome(m)
                      THEN [ Goto(c, "get_mountpoint", "rf_osd_id") EXCEPT !.mount = m ]
                      ELSE [ Did(Goto(c, "get_mountpoint", "rf_osd_id"), "tempdir")
                               EXCEPT !.mount = Some(TempMount) ])
        /\ UNCHANGED << version, config, hostVars, ncalls, nfaults, scratch >>

\* get_osd_id: 0 when simulating, else the trimmed whoami file parsed
GetOsdId(path, sim) ==
    IF sim THEN Some(0)
    ELSE IF IsNone(FileAt(path, "whoami")) THEN None
    ELSE ParseU64(Trim(The(FileAt(path, "whoami"))))

\* get_osd_id_from_path: parts[1] of the file name split at '-'; "panic"
\* when there is no second part, "err" when it is no number
OsdIdFromPath(path) ==
    LET parts == Split(FileName(path), "-")
    IN  IF Len(parts) < 2 THEN [ st |-> "panic", id |-> None ]
        ELSE IF IsNone(ParseU64(parts[2])) THEN [ st |-> "err", id |-> None ]
        ELSE [ st |-> "ok", id |-> ParseU64(parts[2]) ]

\* remove_filestore_osd: get_osd_id, falling back on the path name when
\* whoami cannot be read (readFails) or does not parse
FilestoreOsdId(p) ==
    LET c == call[p]
        b == OsdIdFromPath(The(c.mount))
    IN  /\ c.pc = "rf_osd_id"
        /\ \E readFails \in BOOLEAN :
             /\ readFails => (~c.sim /\ nfaults < MaxFaults)
             /\ nfaults' = IF readFails THEN nfaults + 1 ELSE nfaults
             /\ LET a == IF readFails THEN None ELSE GetOsdId(The(c.mount), c.sim)
                IN  SetCall(p,
                      IF IsSome(a)
                      THEN [ Goto(c, "get_osd_id", "r_out") EXCEPT !.osd_id = a ]
                      ELSE IF b.st = "ok"
                      THEN [ Goto(c, "get_osd_id_from_path", "r_out") EXCEPT !.osd_id = b.id ]
                      ELSE IF b.st = "panic"
                      THEN [ Fail(c, "get_osd_id_from_path", "check")
                               EXCEPT !.result = "panic" ]
                      ELSE Fail(c, "get_osd_id_from_path", "check"))
        /\ UNCHANGED << version, config, hostVars, ncalls, scratch >>

\* osd_out(&cluster, osd_id, simulate)
OsdOut(p) ==
    LET c == call[p]
    IN  /\ c.pc = "r_out"
        /\ SetCall(p, IF c.sim THEN Goto(c, "osd_out", "r_crush_rm")
                      ELSE Did(Goto(c, "osd_out", "r_crush_rm"), "cluster"))
        /\ UNCHANGED << version, config, hostVars, ncalls, nfaults, scratch >>

\* osd_crush_remove(&cluster, osd_id, simulate)
OsdCrushRemove(p) ==
    LET c == call[p]
        id == The(c.osd_id)
    IN  /\ c.pc = "r_crush_rm"
        /\ IF c.sim
           THEN /\ SetCall(p, Goto(c, "osd_crush_remove", "r_auth_del"))
                /\ UNCHANGED crush
           ELSE /\ crush' = { e \in crush : e[1] # id }
                /\ SetCall(p, Did(Goto(c, "osd_crush_remove", "r_auth_del"), "cluster"))
        /\ UNCHANGED << version, config, osds, auth, gpt, dirs, vgs, disks,
                        ncalls, nfaults, scratch >>

\* a key deletion that remove_filestore_osd leaves out
AuthDelBluestoreOnly(p) ==
    LET c == call[p]
        id == The(c.osd_id)
    IN  /\ c.pc = "r_auth_del"
        /\ IF c.layout # "bluestore"
           THEN /\ SetCall(p, [ c EXCEPT !.pc = "r_osd_rm" ])
                /\ UNCHANGED auth
           ELSE IF c.sim
           THEN /\ SetCall(p, Goto(c, "auth_del", "r_stop"))
                /\ UNCHANGED auth
           ELSE /\ auth' = auth \ { id }
                /\ SetCall(p, Did(Goto(c, "auth_del", "r_stop"), "cluster"))
        /\ UNCHANGED << version, config, osds, crush, gpt, dirs, vgs, disks,
                        ncalls, nfaults, scratch >>

\* auth_del(&cluster, osd_id, simulate); remove_bluestore_osd stops the
\* service next, remove_filestore_osd goes on to osd_rm
AuthDel(p) ==
    LET c == call[p]
        id == The(c.osd_id)
        next == IF c.layout = "bluestore" THEN "r_stop" ELSE "r_osd_rm"
    IN  /\ c.pc = "r_auth_del"
        /\ IF c.sim
           THEN /\ SetCall(p, Goto(c, "auth_del", next))
                /\ UNCHANGED auth
           ELSE /\ auth' = auth \ { id }
                /\ SetCall(p, Did(Goto(c, "auth_del", next), "cluster"))
        /\ UNCHANGED << version, config, osds, crush, gpt, dirs, vgs, disks,
                        ncalls, nfaults, scratch >>

\* a stop after which the volumes are torn down at once
SystemctlStopThenTeardown(p) ==
    LET c == call[p]
    IN  /\ c.pc = "r_stop"
        /\ SetCall(p, IF c.sim THEN Goto(c, "systemctl_stop", "r_osd_rm")
                      ELSE Did(Goto(c, "systemctl_stop", "r_lv_remove"), "service"))
        /\ UNCHANGED << version, config, hostVars, ncalls, nfaults, scratch >>

\* systemctl_stop(osd_id, simulate)
SystemctlStop(p) ==
    LET c == call[p]
    IN  /\ c.pc = "r_stop"
        /\ SetCall(p, IF c.sim THEN Goto(c, "systemctl_stop", "r_osd_rm")
                      ELSE Did(Goto(c, "systemctl_stop", "r_osd_rm"), "service"))
        /\ UNCHANGED << version, config, hostVars, ncalls, nfaults, scratch >>

\* osd_rm(&cluster, osd_id, simulate); what follows is inside
\* `if !simulate { ... }` on both layouts
OsdRm(p) ==
    LET c == call[p]
        id == The(c.osd_id)
        blue == c.layout = "bluestore"
    IN  /\ c.pc = "r_osd_rm"
        /\ IF c.sim
           THEN /\ SetCall(p, IF blue THEN Goto(c, "osd_rm", "r_disable")
                              ELSE Finish(c, "osd_rm"))
                /\ UNCHANGED osds
           ELSE /\ osds' = osds \ { id }
                /\ SetCall(p, Did(Goto(c, "osd_rm", IF blue THEN "r_lv_remove" ELSE "r_erase"),
                                  "cluster"))
        /\ UNCHANGED << version, config, auth, crush, gpt, dirs, vgs, disks,
                        ncalls, nfaults, scratch >>

\* for lv in &lvs { lv.deactivate()?; lv.remove()?; }: one iteration, or
\* the end of the loop
LvRemove(p) ==
    LET c == call[p]
        vg == The(vgs[c.dev])
    IN  /\ c.pc = "r_lv_remove"
        /\ IF vg.lvs = << >>
           THEN /\ SetCall(p, [ c EXCEPT !.pc = "r_vg_remove" ])
                /\ UNCHANGED vgs
           ELSE /\ vgs' = [ vgs EXCEPT ![c.dev] = Some([ vg EXCEPT !.lvs = Tail(@) ]) ]
                /\ SetCall(p, Did(Goto(c, "lv_remove", "r_lv_remove"), "lvremove"))
        /\ UNCHANGED << version, config, osds, auth, crush, gpt, dirs, disks,
                        ncalls, nfaults, scratch >>

\* a removal that empties the volume group and leaves it on the device
VgRemoveKeepsGroup(p) ==
    LET c == call[p]
    IN  /\ c.pc = "r_vg_remove"
        /\ SetCall(p, Did(Goto(c, "vg_remove", "r_pv_remove"), "vgremove"))
        /\ UNCHANGED << version, config, hostVars, ncalls, nfaults, scratch >>

\* vg.remove()
VgRemove(p) ==
    LET c == call[p]
    IN  /\ c.pc = "r_vg_remove"
        /\ vgs' = [ vgs EXCEPT ![c.dev] = None ]
        /\ SetCall(p, Did(Goto(c, "vg_remove", "r_pv_remove"), "vgremove"))
        /\ UNCHANGED << version, config, osds, auth, crush, gpt, dirs, disks,
                        ncalls, nfaults, scratch >>

\* lvm.pv_remove(dev_path)
PvRemove(p) ==
    LET c == call[p]
    IN  /\ c.pc = "r_pv_remove"
        /\ SetCall(p, Did(Goto(c, "pv_remove", "r_erase"), "pvremove"))
        /\ UNCHANGED << version, config, hostVars, ncalls, nfaults, scratch >>

\* an erase whose error is handed to the caller
EraseDevicePropagates(p) ==
    LET c == call[p]
        blue == c.layout = "bluestore"
    IN  /\ c.pc = "r_erase"
        /\ \E fails \in BOOLEAN :
             /\ fails => nfaults < MaxFaults
             /\ nfaults' = IF fails THEN nfaults + 1 ELSE nfaults
             /\ disks' = IF fails THEN disks
                         ELSE [ disks EXCEPT ![c.dev].formatted = FALSE ]
             /\ LET c1 == IF blue THEN Goto(c, "erase_block_device", "r_rmdir")
                          ELSE Finish(c, "erase_block_device")
                IN  SetCall(p, IF fails THEN Fail(c, "erase_failed", "mutate")
                               ELSE Did(c1, "erase"))
        /\ UNCHANGED << version, config, osds, auth, crush, gpt, dirs, vgs,
                        ncalls, scratch >>

\* erase_block_device(dev_path): its error is logged and dropped
EraseDevice(p) ==
    LET c == call[p]
        blue == c.layout = "bluestore"
    IN  /\ c.pc = "r_erase"
        /\ \E fails \in BOOLEAN :
             /\ fails => nfaults < MaxFaults
             /\ nfaults' = IF fails THEN nfaults + 1 ELSE nfaults
             /\ disks' = IF fails THEN disks
                         ELSE [ disks EXCEPT ![c.dev].formatted = FALSE ]
             /\ LET e == IF fails THEN "erase_failed" ELSE "erase_block_device"
                    c1 == IF blue THEN Goto(c, e, "r_rmdir") ELSE Finish(c, e)
                IN  SetCall(p, IF fails THEN c1 ELSE Did(c1, "erase"))
        /\ UNCHANGED << version, config, osds, auth, crush, gpt, dirs, vgs,
                        ncalls, scratch >>

\* remove_dir_all(/var/lib/ceph/osd/ceph-<id>): an error when the
\* directory does not exist
RemoveMountDir(p) ==
    LET c == call[p]
        id == The(c.osd_id)
    IN  /\ c.pc = "r_rmdir"
        /\ IF IsNone(dirs[id])
           THEN /\ SetCall(p, Fail(c, "remove_dir_all", "mutate"))
                /\ UNCHANGED dirs
           ELSE /\ dirs' = [ dirs EXCEPT ![id] = None ]
                /\ SetCall(p, Did(Goto(c, "remove_dir_all", "r_disable"), "rmdir"))
        /\ UNCHANGED << version, config, osds, auth, crush, gpt, vgs, disks,
                        ncalls, nfaults, scratch >>

\* systemctl_disable(osd_id, &osd_fsid, simulate)
SystemctlDisable(p) ==
    LET c == call[p]
    IN  /\ c.pc = "r_disable"
        /\ SetCall(p, IF c.sim THEN Finish(c, "systemctl_disable")
                      ELSE Did(Finish(c, "systemctl_disable"), "service"))
        /\ UNCHANGED << version, config, hostVars, ncalls, nfaults, scratch >>

\* ------------------------------------------------------------------------
\* safe_to_remove
\* ------------------------------------------------------------------------
DiagStatuses == { "Safe", "NonSafe", "Unknown" }

\* a mapping that takes every outcome but NonSafe for safe
SafeToRemoveResultLenient(status) == status # "NonSafe"

\* match diag_map.exhaustive_diag(Format::Json) { ... }
SafeToRemoveResult(status) ==
    CASE status = "Safe"    -> TRUE
      [] status = "NonSafe" -> FALSE
      [] OTHER              -> FALSE

\* Backend::safe_to_remove: DiagMap::new may fail; otherwise the status is
\* mapped to the boolean
SafeToRemove(p, dev, status, diagOk) ==
    /\ ~Running(call[p])
    /\ ncalls < MaxCalls
    /\ SetCall(p, [ IdleCall EXCEPT
                      !.op = "safe", !.dev = dev, !.pc = "done",
                      !.prev = Outcome(call[p]),
                      !.status = status,
                      !.result = IF diagOk THEN "ok" ELSE "err",
                      !.err = IF diagOk THEN "none" ELSE "query",
                      !.ret = IF diagOk THEN SafeToRemoveResult(status) ELSE FALSE,
                      !.trace = << "exhaustive_diag" >> ])
    /\ ncalls' = ncalls + 1
    /\ UNCHANGED << version, config, hostVars, nfaults, scratch >>


\* ------------------------------------------------------------------------
\* Collaborator failures
\* ------------------------------------------------------------------------
\* The kinds of collaborator call the step at c.pc makes and that may
\* fail: "query" for a read-only call, "mutate" for one that changes the
\* host or the cluster. A call the step skips when simulating cannot fail.
FaultKinds(c) ==
    LET Q == { "query" }
        M == { "mutate" }
        R == IF c.sim THEN {} ELSE { "mutate" }
    IN  CASE c.pc \in { "b_select_journal", "f_select_journal", "sj_eval",
                        "b_lvm_probe", "b_tags", "b_resolve", "b_auth_get",
                        "f_auth_get", "f_probe", "r_lvm", "r_mountpoint",
                        "r_type", "r_tags" } -> Q
          [] c.pc \in { "sj_create", "b_vg", "b_lv", "b_add_tag", "b_mkdir",
                        "b_fsid", "b_link_block", "b_link_wal", "r_lv_remove",
                        "r_vg_remove", "r_pv_remove", "r_rmdir" } -> M
          [] c.pc \in { "sj_reread", "b_chown_wal", "b_monmap", "b_chown",
                        "r_tmp_mount", "rf_mountpoint" } -> Q \cup M
          [] c.pc \in { "b_osd_create", "f_osd_create", "b_auth_add", "f_auth_add",
                        "b_keyring", "f_keyring", "b_mkfs", "f_mkfs", "b_prime",
                        "b_enable", "f_format", "f_mount", "f_fstab", "r_out",
                        "r_crush_rm", "r_auth_del", "r_stop", "r_osd_rm",
                        "r_disable" } -> R
          [] c.pc \in { "b_crush_add", "f_crush_add", "b_start", "f_start" } -> Q \cup R
          [] OTHER -> {}

\* a failure after which the OSD id the call had allocated is given back
FaultWithRollback(p) ==
    LET c == call[p]
    IN  /\ Running(c)
        /\ nfaults < MaxFaults
        /\ \E k \in FaultKinds(c) :
             SetCall(p, [ c EXCEPT !.pc = "done", !.result = "err",
                                   !.err = k, !.at = c.pc ])
        /\ nfaults' = nfaults + 1
        /\ osds' = IF c.op = "add" /\ ~c.sim THEN osds \ c.osd_id ELSE osds
        /\ UNCHANGED << version, config, auth, crush, gpt, dirs, vgs, disks,
                        ncalls, scratch >>

\* the collaborator call of the current step returns an error, which `?`
\* hands to the caller: the step has no effect and the call ends
Fault(p) ==
    LET c == call[p]
    IN  /\ Running(c)
        /\ nfaults < MaxFaults
        /\ \E k \in FaultKinds(c) :
             SetCall(p, [ c EXCEPT !.pc = "done", !.result = "err",
                                   !.err = k, !.at = c.pc ])
        /\ nfaults' = nfaults + 1
        /\ UNCHANGED << version, config, hostVars, ncalls, scratch >>

\* ------------------------------------------------------------------------
\* The specification: calls are made one at a time
\* ------------------------------------------------------------------------
\* the steps of add, select_journal included
AddStep(p) ==
    \/ SelectJournal(p) \/ EvalJournalNotFound(p) \/ EvalJournalScan(p)
    \/ EvalJournalNoId(p) \/ CreateJournal(p) \/ RereadJournal(p)
    \/ OsdCreate(p) \/ LvmProbe(p) \/ VgCreate(p) \/ LvCreate(p)
    \/ BuildTags(p) \/ AddTag(p) \/ MakeMountPoint(p) \/ WriteFsid(p)
    \/ ResolveLvm(p) \/ LinkBlock(p) \/ LinkWal(p) \/ ChownWal(p)
    \/ WriteMonmap(p) \/ ChownAll(p) \/ AuthAdd(p) \/ AuthGetKey(p)
    \/ SaveKeyring(p) \/ CephMkfs(p) \/ BluestoreTool(p) \/ CrushAdd(p)
    \/ SystemctlEnable(p) \/ SetupOsdInit(p)
    \/ FormatDevice(p) \/ ProbeDevice(p) \/ MountDevice(p) \/ AddToFstab(p)

\* the steps of remove
RemoveStep(p) ==
    \/ VgLookup(p) \/ IsFilestoreMountpoint(p) \/ IsFilestoreTempMount(p)
    \/ IsFilestoreType(p) \/ ReadTags(p) \/ FilestoreMountpoint(p)
    \/ FilestoreOsdId(p) \/ OsdOut(p) \/ OsdCrushRemove(p) \/ AuthDel(p)
    \/ SystemctlStop(p) \/ OsdRm(p) \/ LvRemove(p) \/ VgRemove(p)
    \/ PvRemove(p) \/ EraseDevice(p) \/ RemoveMountDir(p) \/ SystemctlDisable(p)

Step(p) == AddStep(p) \/ RemoveStep(p) \/ Fault(p)

\* the caller that makes the serialized calls
SerialProc == 1

SerialAdd ==
    /\ Quiet(SerialProc)
    /\ \E dev \in NewDevs, sim \in BOOLEAN : AddDisk(SerialProc, dev, sim)

SerialRemove ==
    /\ Quiet(SerialProc)
    /\ \E dev \in Devs, sim \in BOOLEAN : RemoveDisk(SerialProc, dev, sim)

SerialSafeToRemove ==
    /\ Quiet(SerialProc)
    /\ \E st \in DiagStatuses, ok \in BOOLEAN :
         SafeToRemove(SerialProc, LegacyDev, st, ok)

Next == SerialAdd \/ SerialRemove \/ SerialSafeToRemove \/ Step(SerialProc)

Spec == Init /\ [][Next]_vars

\* safe_to_remove alone
SafeNext == SerialSafeToRemove

SafeSpec == Init /\ [][SafeNext]_vars


\* ------------------------------------------------------------------------
\* Properties of add in simulate mode
\* ------------------------------------------------------------------------
\* C1: while add(device, id, simulate=true) runs, on either path, nothing
\* is mutated: the host and the cluster plane stay as they are (no journal
\* partition, volume group, logical volume or tag, no directory, file or
\* symlink) and no real effect of any kind (ownership change, external
\* process, cluster mutation) is recorded for the call.
C1_SimulateAddMutatesNothing ==
    [][ \A p \in Procs :
          (call[p].op = "add" /\ call[p].sim /\ Running(call[p]))
            => (UNCHANGED hostVars /\ call'[p].eff = call[p].eff) ]_vars

\* the steps at which the journal selector rejects the configured journal
\* devices (a partition that does not exist, no room for a new one)
JournalSteps == { "sj_eval", "sj_create", "sj_reread" }

\* C2: add(device, id, simulate=true) of a device whose probe yields a
\* filesystem UUID, with a journal configuration the selector accepts,
\* that met no failing collaborator call and a known service manager, has
\* returned success, on either path, whether or not the mount directory
\* of the OSD exists.
C2_SimulateAddSucceeds ==
    \A p \in Procs :
      LET c == call[p]
      IN  (/\ c.op = "add" /\ c.sim /\ c.pc = "done"
           /\ disks[c.dev].formatted
           /\ c.at \notin JournalSteps
           /\ c.err \notin { "query", "mutate" }
           /\ c.daemon # "Unknown")
            => c.result = "ok"

\* ------------------------------------------------------------------------
\* Journal partitions
\* ------------------------------------------------------------------------
\* the partition GUIDs the journal and block.wal symlinks of OSD directory
\* i resolve to
JournalGuids(i) ==
    LET d == The(dirs[i])
        ls == { l \in { d.journal, d.wal } : IsSome(l) /\ The(l).symlink }
    IN  UNION { PartUuidOf(gpt, The(l).target) : l \in ls }

\* C3: with calls made one at a time, no journal partition is claimed by
\* two OSDs: the journal links of two OSD directories never resolve to the
\* same partition GUID.
C3_NoDoubleJournalClaim ==
    \A a, b \in ExistingIds :
      a # b => JournalGuids(a) \cap JournalGuids(b) = {}

\* ------------------------------------------------------------------------
\* Recovery by remove
\* ------------------------------------------------------------------------
\* C4: when add failed after it had allocated an OSD id, the remove
\* (simulate=false) of the same device that follows, itself meeting no
\* failing collaborator call, has taken that id out of the cluster.
C4_FailedAddRolledBack ==
    \A p \in Procs :
      LET c == call[p]
      IN  (/\ c.op = "remove" /\ ~c.sim /\ c.pc = "done"
           /\ c.err \notin { "query", "mutate" }
           /\ c.prev.op = "add" /\ ~c.prev.sim /\ c.prev.dev = c.dev
           /\ c.prev.result = "err" /\ IsSome(c.prev.osd_id))
            => The(c.prev.osd_id) \notin osds

\* the steps of remove that act on the host only
LocalRemoveSteps ==
    { "r_stop", "r_lv_remove", "r_vg_remove", "r_pv_remove", "r_rmdir",
      "r_disable" }

\* the cluster holds a record of OSD id: its registration, its key or its
\* placement entry
ClusterRecord(id) ==
    id \in osds \/ id \in auth \/ (\E e \in crush : e[1] = id)

\* C5: when remove returns the error of a failed local step (service
\* stop, volume teardown, mount directory deletion, service disable), the
\* cluster holds no record of the OSD any more.
C5_NoStrandedClusterRecord ==
    \A p \in Procs :
      LET c == call[p]
      IN  (/\ c.op = "remove" /\ ~c.sim /\ c.pc = "done" /\ c.result = "err"
           /\ c.at \in LocalRemoveSteps /\ IsSome(c.osd_id))
            => ~ClusterRecord(The(c.osd_id))


\* ------------------------------------------------------------------------
\* Order of the steps of add on the modern layout
\* ------------------------------------------------------------------------
RECURSIVE PosFrom(_, _, _)
PosFrom(tr, name, i) ==
    IF i > Len(tr) THEN 0
    ELSE IF tr[i] = name THEN i
    ELSE PosFrom(tr, name, i + 1)

\* the place of the first invocation of name in trace tr, 0 when there
\* is none
Pos(tr, name) == PosFrom(tr, name, 1)

\* name b was invoked only after name a had been
Precedes(tr, a, b) ==
    Pos(tr, b) # 0 => (Pos(tr, a) # 0 /\ Pos(tr, a) < Pos(tr, b))

\* the real effects that are formatting or service commands
FormatOrServiceEffects == { "format", "process", "service" }

C7_RemoveUnknownDeviceNotFound ==
    \A p \in Procs :
      LET c == call[p]
      IN  (c.op = "remove" /\ ~c.sim /\ ~c.pre.vg /\ ~c.pre.marker)
            => /\ "cluster" \notin c.eff
               /\ c.pc = "done" => c.result = "err"

\* ------------------------------------------------------------------------
\* safe_to_remove
\* ------------------------------------------------------------------------
\* C8: safe_to_remove, when the diagnosis itself succeeded, returns true
\* exactly when the outcome is Safe: false for NonSafe and for Unknown.
C8_SafeOnlyWhenSafe ==
    \A p \in Procs :
      LET c == call[p]
      IN  (c.op = "safe" /\ c.result = "ok")
            => (c.ret <=> c.status = "Safe")

\* safe_to_remove returned false for an Unknown outcome
C8_Witness ==
    \E p \in Procs :
      LET c == call[p]
      IN  c.op = "safe" /\ c.result = "ok" /\ c.status = "Unknown" /\ ~c.ret


\* ------------------------------------------------------------------------
\* partition_in_use on given OSD directories
\* ------------------------------------------------------------------------
\* the partition tables of the scan: /dev/sdj carries partitions 1 and 2
ScanGpt == [ InitGpt EXCEPT !["/dev/sdj"].parts = { 1, 2 } ]

\* what an OSD directory may hold where journals go: nothing, a journal or
\* block.wal symlink to a partition, a dangling symlink, a journal that is
\* a regular file, or both entries
DirShapes ==
    { EmptyDir,
      [ EmptyDir EXCEPT !.journal = Some(Link("/dev/sdj1")) ],
      [ EmptyDir EXCEPT !.wal = Some(Link("/dev/sdj1")) ],
      [ EmptyDir EXCEPT !.wal = Some(Link("/dev/sdj2")) ],
      [ EmptyDir EXCEPT !.wal = Some(Link("/dev/sdj9")) ],
      [ EmptyDir EXCEPT !.journal = Some([ symlink |-> FALSE, target |-> "" ]) ],
      [ EmptyDir EXCEPT !.journal = Some(Link("/dev/sdj2")),
                        !.wal = Some(Link("/dev/sdj1")) ] }

\* the GUIDs looked up: of /dev/sdj1, of /dev/sdj2 and of a partition no
\* directory links to
ScanGuids == { PartGuid("/dev/sdj", 1), PartGuid("/dev/sdj", 2), PartGuid("/dev/sdk", 1) }

ScanInit ==
    /\ version = "Luminous"
    /\ config = None
    /\ osds = {} /\ auth = {} /\ crush = {}
    /\ gpt = ScanGpt
    /\ dirs = [ i \in OsdIds |-> None ]
    /\ vgs = [ d \in Devs |-> None ]
    /\ disks = [ d \in Devs |-> [ formatted |-> FALSE, mount |-> None ] ]
    /\ call = [ p \in Procs |-> IdleCall ]
    /\ ncalls = 0
    /\ nfaults = 0
    /\ scratch = [ ds |-> << >>, guid |-> 0, result |-> "none" ]

\* one more OSD directory, enumerated after those there are
ScanMkdir(d) ==
    /\ scratch.result = "none"
    /\ Len(scratch.ds) < MaxScanDirs
    /\ scratch' = [ scratch EXCEPT !.ds = Append(@, d) ]
    /\ UNCHANGED << version, config, hostVars, call, ncalls, nfaults >>

\* partition_in_use(guid) over the directories in their order
ScanLookup(guid) ==
    /\ scratch.result = "none"
    /\ scratch' = [ scratch EXCEPT !.guid = guid,
                                   !.result = PartitionInUse(gpt, scratch.ds, guid) ]
    /\ UNCHANGED << version, config, hostVars, call, ncalls, nfaults >>

ScanNext ==
    \/ \E d \in DirShapes : ScanMkdir(d)
    \/ \E guid \in ScanGuids : ScanLookup(guid)

ScanSpec == ScanInit /\ [][ScanNext]_vars

\* directory i of the scan holds one journal entry at most, a symlink
\* that resolves to a partition
ScanDirRegular(i) ==
    ScanDir(gpt, scratch.ds[i], scratch.guid) \in { "none", "hit", "miss" }

\* C9: over directories that each hold at most one journal symlink,
\* partition_in_use(X) reports in-use exactly when the journal symlink of
\* some directory resolves to X, whatever the order of the directories and
\* whatever directories without a journal are among them.
C9_InUseIffSomeJournalResolves ==
    (/\ scratch.result # "none"
     /\ \A i \in 1..Len(scratch.ds) : ScanDirRegular(i))
      => /\ scratch.result \in { "true", "false" }
         /\ scratch.result = "true"
              <=> \E i \in 1..Len(scratch.ds) :
                    ScanDir(gpt, scratch.ds[i], scratch.guid) = "hit"


\* ------------------------------------------------------------------------
\* Tags written by create_lvm_tags and read back by remove_bluestore_osd
\* ------------------------------------------------------------------------
\* the device the tagged volume is on
TagDev == "/dev/sdb"

\* the journal of the tagged volume, when it has one
TagJournal == JournalDevice("/dev/sdj", Some(1), Some(PartGuid("/dev/sdj", 1)), Some(1))

\* tags other than those of create_lvm_tags that a volume may carry
OtherTags == { "bynar.rack=r1", "ceph.vdo=0", "ceph.osd_id_prev=9" }

\* the OSD ids written: the lowest, one of one digit, one of two digits
TagIds == { 0, MaxTagId \div 2, MaxTagId }

TagInit ==
    /\ version = "Luminous"
    /\ config = None
    /\ osds = {} /\ auth = {} /\ crush = {}
    /\ gpt = InitGpt
    /\ dirs = [ i \in OsdIds |-> None ]
    /\ vgs = [ d \in Devs |-> None ]
    /\ disks = [ d \in Devs |-> [ formatted |-> FALSE, mount |-> None ] ]
    /\ call = [ p \in Procs |-> IdleCall ]
    /\ ncalls = 0
    /\ nfaults = 0
    /\ \E id \in TagIds, fsid \in FsidPool, j \in { None, Some(TagJournal) } :
         scratch = [ phase |-> "new", id |-> id, fsid |-> fsid, journal |-> j,
                     tags |-> << >>, extra |-> 0,
                     read |-> [ err |-> FALSE, osd_id |-> None, osd_fsid |-> None ] ]

\* create_lvm_tags: the volume gets the tags, in the order of the vector
TagsCreate ==
    /\ scratch.phase = "new"
    /\ scratch' = [ scratch EXCEPT
         !.phase = "tagged",
         !.tags = LvmTagList(LvDevName(TagDev, scratch.fsid), scratch.fsid,
                             scratch.id, ClusterFsid, LvUuid, scratch.journal,
                             PartGuid("/dev/sdj", 1), MediaOf(TagDev)) ]
    /\ UNCHANGED << version, config, hostVars, call, ncalls, nfaults >>

\* seq with the element at place i taken out and put at place j
MoveTo(seq, i, j) ==
    LET rest == SubSeq(seq, 1, i - 1) \o SubSeq(seq, i + 1, Len(seq))
    IN  SubSeq(rest, 1, j - 1) \o << seq[i] >> \o SubSeq(rest, j, Len(rest))

\* the volume manager lists the tags in an order of its own: the osd_id
\* or the osd_fsid tag shows up at another place
TagsReorder(i, j) ==
    /\ scratch.phase = "tagged"
    /\ scratch.tags[i] \in { OsdIdTag(scratch.id), OsdFsidTag(scratch.fsid) }
    /\ i # j
    /\ scratch' = [ scratch EXCEPT !.tags = MoveTo(@, i, j) ]
    /\ UNCHANGED << version, config, hostVars, call, ncalls, nfaults >>

\* another tag is set on the volume and shows up at place j
TagsInterleave(t, j) ==
    /\ scratch.phase = "tagged"
    /\ scratch.extra < MaxExtraTags
    /\ scratch' = [ scratch EXCEPT
         !.extra = @ + 1,
         !.tags = SubSeq(@, 1, j - 1) \o << t >> \o SubSeq(@, j, Len(@)) ]
    /\ UNCHANGED << version, config, hostVars, call, ncalls, nfaults >>

\* the read-back loop of remove_bluestore_osd over the one volume
TagsReadBack ==
    /\ scratch.phase = "tagged"
    /\ scratch' = [ scratch EXCEPT !.phase = "read",
                                   !.read = ReadOsdTags(<< scratch.tags >>) ]
    /\ UNCHANGED << version, config, hostVars, call, ncalls, nfaults >>

TagNext ==
    \/ TagsCreate
    \/ \E i, j \in 1..Len(scratch.tags) : TagsReorder(i, j)
    \/ \E t \in OtherTags, j \in 1..(Len(scratch.tags) + 1) : TagsInterleave(t, j)
    \/ TagsReadBack

TagSpec == TagInit /\ [][TagNext]_vars

\* C10: whatever the places of the osd_id and osd_fsid tags among the
\* tags of the volume and whatever other tags are interleaved with them,
\* the read-back recovers the OSD id and the OSD UUID create_lvm_tags
\* wrote.
C10_TagRoundTrip ==
    scratch.phase = "read"
      => /\ ~scratch.read.err
         /\ scratch.read.osd_id = Some(scratch.id)
         /\ scratch.read.osd_fsid = Some(scratch.fsid)


\* ------------------------------------------------------------------------
\* select_journal on given candidates and partition tables
\* ------------------------------------------------------------------------
\* the entries a journal_devices list may hold: a device with or without
\* a partition id, with or without a partition count
CandKinds ==
    { JournalDevice(d, pid, None, n) :
        d \in JournalDevs, pid \in { None, Some(1) },
        n \in { None } \cup { Some(k) : k \in 1..MaxPartCount } }

JournalConfigs ==
    UNION { [ 1..n -> CandKinds ] : n \in 0..MaxCands }

\* sectors a journal of osd_journal_size takes
JournalSectors == JournalBytes(JournalSizeMb) \div LbaSize

\* the free extents a journal device may have: none, two of exactly the
\* journal's size each, or one of that size and a larger one
FreeShapes ==
    { << >>, << JournalSectors, JournalSectors >>,
      << JournalSectors, 2 * JournalSectors + 1 >> }

\* the OSD directory the host may hold already: none, one whose
\* block.wal links to /dev/sdj1, or one that holds a journal and a
\* block.wal entry
JournalDirs ==
    { None,
      Some([ EmptyDir EXCEPT !.wal = Some(Link("/dev/sdj1")) ]),
      Some([ EmptyDir EXCEPT !.journal = Some(Link("/dev/sdj1")),
                             !.wal = Some(Link("/dev/sdj1")) ]) }

JournalInit ==
    /\ version = "Luminous"
    /\ config \in { Some(js) : js \in JournalConfigs }
    /\ osds = {} /\ auth = {} /\ crush = {}
    /\ gpt \in { [ InitGpt EXCEPT !["/dev/sdj"].free = fj, !["/dev/sdk"].free = fk ] :
                   fj \in FreeShapes, fk \in FreeShapes }
    /\ \E d \in JournalDirs : dirs = [ i \in OsdIds |-> IF i = 0 THEN d ELSE None ]
    /\ vgs = [ d \in Devs |-> None ]
    /\ disks = [ d \in Devs |-> [ formatted |-> FALSE, mount |-> None ] ]
    /\ call = [ p \in Procs |-> IdleCall ]
    /\ ncalls = 0
    /\ nfaults = 0
    /\ scratch = << >>

\* add_disk of /dev/sdb on a Luminous cluster: select_journal is its
\* first step
JournalAdd ==
    /\ Quiet(SerialProc)
    /\ \E sim \in BOOLEAN : AddDisk(SerialProc, "/dev/sdb", sim)

JournalNext ==
    \/ JournalAdd
    \/ SelectJournal(SerialProc)
    \/ EvalJournalNotFound(SerialProc)
    \/ EvalJournalScan(SerialProc)
    \/ EvalJournalNoId(SerialProc)
    \/ CreateJournal(SerialProc)
    \/ RereadJournal(SerialProc)

JournalSpec == JournalInit /\ [][JournalNext]_vars

\* the configured candidates, and their partition counts in list order
ConfigList == IF IsSome(config) THEN The(config) ELSE << >>
Counts(js) == [ i \in DOMAIN js |-> js[i].num_partitions ]

\* s holds the elements of js, each as often as js does
SameElements(s, js) ==
    /\ Len(s) = Len(js)
    /\ \A i \in DOMAIN js :
         Cardinality({ k \in DOMAIN s : s[k] = js[i] })
           = Cardinality({ k \in DOMAIN js : js[k] = js[i] })

\* select_journal has just returned from its filter: nothing was done
\* since
JustSelected(c) == c.op = "add" /\ c.trace = << "select_journal" >>

\* C11: the journal selector considers the configured candidates in
\* ascending order of their partition count: the order considered holds
\* the configured candidates, a candidate with a smaller count before one
\* with a larger count (counts 3,1,2 are considered as 1,2,3), and the
\* candidate selected, when it carries a count and no probe failed, has
\* the smallest count among the candidates with enough free space.
C11_JournalAscendingOrder ==
    LET js == ConfigList
        s == SortByNumPartitions(js)
        size == JournalBytes(JournalSizeMb)
    IN  /\ SameElements(s, js)
        /\ \A i, j \in DOMAIN s :
             (i < j /\ IsSome(s[i].num_partitions) /\ IsSome(s[j].num_partitions))
               => The(s[i].num_partitions) <= The(s[j].num_partitions)
        /\ Counts(js) = << Some(3), Some(1), Some(2) >>
             => Counts(s) = << Some(1), Some(2), Some(3) >>
        /\ \A p \in Procs :
             LET c == call[p]
             IN  (/\ JustSelected(c) /\ c.pc = "sj_eval" /\ nfaults = 0
                  /\ IsSome(c.cands[1].num_partitions))
                   => \A k \in DOMAIN js :
                        (/\ IsSome(js[k].num_partitions)
                         /\ \E x \in DOMAIN gpt[js[k].device].free :
                              gpt[js[k].device].free[x] * LbaSize > size)
                          => The(c.cands[1].num_partitions) <= The(js[k].num_partitions)

\* candidates with counts 3, 1, 2 on devices that all have room: the one
\* with count 1 was selected
C11_Witness ==
    \E p \in Procs :
      /\ JustSelected(call[p]) /\ call[p].pc = "sj_eval" /\ nfaults = 0
      /\ Counts(ConfigList) = << Some(3), Some(1), Some(2) >>
      /\ call[p].cands[1].num_partitions = Some(1)
      /\ call[p].cands[1] = ConfigList[2]

\* the table has a free extent that holds size bytes
HasRoom(table, size) ==
    \E k \in DOMAIN table.free : table.free[k] * LbaSize >= size

\* C12: a candidate on a device without a free extent that holds the
\* journal is never the one select_journal selects, wherever it stands in
\* the order; when no configured candidate has such an extent,
\* select_journal returns no journal and no partition is created.
C12_NoRoomNeverSelected ==
    \A p \in Procs :
      LET c == call[p]
          size == JournalBytes(JournalSizeMb)
      IN  /\ (JustSelected(c) /\ c.pc = "sj_eval")
                => HasRoom(gpt[c.cands[1].device], size)
          /\ (/\ JustSelected(c)
              /\ \A k \in DOMAIN ConfigList : ~HasRoom(gpt[ConfigList[k].device], size))
                => /\ c.pc = AfterJournal(c)
                   /\ c.journal = None
                   /\ c.cands = << >>
          /\ (c.op = "add" /\ Pos(c.trace, "select_journal") # 0 /\ c.cands = << >>)
                => /\ c.journal = None
                   /\ "partition" \notin c.eff
                   /\ Pos(c.trace, "create_journal") = 0
                   /\ gpt["/dev/sdj"].parts = { 1 } /\ gpt["/dev/sdk"].parts = {}

\* the candidate with the fewest partitions is on a device without room
\* and the one selected is another, on a device with room
C12_Witness ==
    \E p \in Procs :
      LET c == call[p]
          s == SortByNumPartitions(ConfigList)
      IN  /\ JustSelected(c) /\ c.pc = "sj_eval"
          /\ Len(s) >= 2
          /\ ~HasRoom(gpt[s[1].device], JournalBytes(JournalSizeMb))
          /\ c.cands[1].device # s[1].device


\* ------------------------------------------------------------------------
\* Placement weight
\* ------------------------------------------------------------------------
\* the size the weight of the OSD added by call c is taken from: the
\* volume group's on the Bluestore path, the capacity on the Filestore path
WeighedSize(c) ==
    IF VersionAtLeast(version, "Luminous") THEN VgBytes(c.dev) ELSE DevBytes(c.dev)

\* size a is at most size b, both as [mib, rem]
BytesLeq(a, b) == a.mib < b.mib \/ (a.mib = b.mib /\ a.rem <= b.rem)

\* w is floor(size / 2^30): w * 2^30 <= size < (w + 1) * 2^30
IsFloorGib(w, size) ==
    /\ BytesLeq(Bytes(w * 1024, 0), size)
    /\ ~BytesLeq(Bytes((w + 1) * 1024, 0), size)

\* the call has just registered its OSD in the placement hierarchy
JustPlaced(c) ==
    /\ c.op = "add" /\ ~c.sim
    /\ c.pc \in { "b_enable", "f_fstab" }
    /\ c.trace[Len(c.trace)] = "osd_crush_add"

\* C13: the OSD a non-simulated add has just registered in the placement
\* hierarchy has one entry there, and its weight in thousandths is
\* floor(size / 2^30), size being the volume group's size on the Bluestore
\* path and the capacity on the Filestore path: 10 for 10 * 2^30 bytes,
\* 0 for 2^30 - 1 bytes.
C13_WeightIsFloorGib ==
    \A p \in Procs :
      LET c == call[p]
          size == WeighedSize(c)
          mine == { e \in crush : e[1] = The(c.osd_id) }
      IN  JustPlaced(c)
            => /\ Cardinality(mine) = 1
               /\ \A e \in mine :
                    /\ IsFloorGib(e[2], size)
                    /\ size = Bytes(10 * 1024, 0) => e[2] = 10
                    /\ size = Bytes(1023, MiB - 1) => e[2] = 0

\* an OSD on a volume group of 10 * 2^30 bytes was registered with 10
\* thousandths
C13_Witness ==
    \E p \in Procs :
      /\ JustPlaced(call[p])
      /\ WeighedSize(call[p]) = Bytes(10 * 1024, 0)
      /\ << The(call[p].osd_id), 10 >> \in crush


\* ------------------------------------------------------------------------
\* Errors: propagation, and what a failed call leaves behind
\* ------------------------------------------------------------------------
\* the call has returned an error (or panicked)
Failed(c) == c.pc = "done" /\ c.result \notin { "ok", "none" }

\* what call c of an add did for real is still there: the id it
\* allocated, the partition it created, its volume group and volume, the
\* files it wrote
EffectsInPlace(c) ==
    /\ (Pos(c.trace, "osd_create") # 0 /\ IsSome(c.osd_id))
         => The(c.osd_id) \in osds
    /\ "partition" \in c.eff
         => The(c.part) \in gpt[c.cands[1].device].parts
    /\ "vg" \in c.eff => IsSome(vgs[c.dev])
    /\ "lv" \in c.eff => Len(The(vgs[c.dev]).lvs) >= 1
    /\ "file" \in c.eff
         => IsSome(dirs[The(c.osd_id)]) /\ The(dirs[The(c.osd_id)]).files # {}

\* C14: no automatic rollback. The step at which add or remove returns
\* its error changes nothing on the host or in the cluster, the call
\* executes no step after it, and what the steps of a failed add had done
\* before (allocated id, journal partition, volume group and volume,
\* files) is still in place.
C14_NoRollback ==
    /\ [][ \A p \in Procs :
             /\ (Running(call[p]) /\ Failed(call'[p])) => UNCHANGED hostVars
             /\ Failed(call[p])
                  => /\ UNCHANGED hostVars
                     /\ call'[p] = call[p] \/ call'[p].prev = Outcome(call[p]) ]_vars
    /\ [](\A p \in Procs :
            (Failed(call[p]) /\ call[p].op = "add" /\ ~call[p].sim)
              => EffectsInPlace(call[p]))

\* an add failed after it had allocated an id, created its volume group
\* and volume and written the fsid file
C14_Witness ==
    \E p \in Procs :
      LET c == call[p]
      IN  /\ Failed(c) /\ c.op = "add" /\ ~c.sim
          /\ { "cluster", "vg", "lv", "file" } \subseteq c.eff
          /\ The(c.osd_id) \in osds

\* C15: when erasing the device fails during remove, on either layout,
\* the call does not return at that step: on Bluestore the mount
\* directory is deleted and the service unit disabled afterwards, and
\* remove returns success unless one of these later steps fails.
C15_EraseFailureIgnored ==
    \A p \in Procs :
      LET c == call[p]
          k == Pos(c.trace, "erase_failed")
      IN  (c.op = "remove" /\ k # 0)
            => /\ c.at # "r_erase"
               /\ c.pc = "done"
                    => \/ c.result = "ok"
                       \/ c.layout = "bluestore" /\ c.at \in { "r_rmdir", "r_disable" }
               /\ (c.pc = "done" /\ c.result = "ok" /\ c.layout = "bluestore")
                    => /\ Pos(c.trace, "remove_dir_all") = k + 1
                       /\ Pos(c.trace, "systemctl_disable") = k + 2
               /\ (c.pc = "done" /\ c.layout = "filestore") => c.result = "ok"

\* a Bluestore remove returned success although the erase had failed
C15_Witness ==
    \E p \in Procs :
      LET c == call[p]
      IN  /\ c.op = "remove" /\ c.layout = "bluestore"
          /\ Pos(c.trace, "erase_failed") # 0
          /\ c.pc = "done" /\ c.result = "ok"
          /\ Pos(c.trace, "systemctl_disable") # 0


\* C16: when the in-use check of the candidate's partition fails during
\* journal selection, the candidate counts as unusable and the selection
\* is not aborted: the add does not return that error.
C16_InUseProbeFailureTolerated ==
    \A p \in Procs :
      LET c == call[p]
      IN  (c.op = "add" /\ Pos(c.trace, "partition_in_use") # 0)
            => ~Failed(c)


\* ------------------------------------------------------------------------
\* remove in simulate mode
\* ------------------------------------------------------------------------
\* C17: while remove(device, simulate=true) runs, on either layout and
\* version, nothing is mutated: the cluster, the volume manager, the
\* devices and their mounts and the directories stay as they are, and no
\* real effect (a directory created, a mount, a service command) is
\* recorded for the call.
C17_SimulateRemoveMutatesNothing ==
    [][ \A p \in Procs :
          (call[p].op = "remove" /\ call[p].sim /\ Running(call[p]))
            => (UNCHANGED hostVars /\ call'[p].eff = call[p].eff) ]_vars


\* ------------------------------------------------------------------------
\* Two callers at once: add_disk without external serialization
\* ------------------------------------------------------------------------
\* the steps of add_bluestore_osd, select_journal included
BluestoreStep(p) ==
    \/ SelectJournal(p) \/ EvalJournalNotFound(p) \/ EvalJournalScan(p)
    \/ EvalJournalNoId(p) \/ CreateJournal(p) \/ RereadJournal(p)
    \/ OsdCreate(p) \/ LvmProbe(p) \/ VgCreate(p) \/ LvCreate(p)
    \/ BuildTags(p) \/ AddTag(p) \/ MakeMountPoint(p) \/ WriteFsid(p)
    \/ ResolveLvm(p) \/ LinkBlock(p) \/ LinkWal(p) \/ ChownWal(p)
    \/ WriteMonmap(p) \/ ChownAll(p) \/ AuthAdd(p) \/ AuthGetKey(p)
    \/ SaveKeyring(p) \/ CephMkfs(p) \/ BluestoreTool(p) \/ CrushAdd(p)
    \/ SystemctlEnable(p) \/ SetupOsdInit(p)

\* a host without OSDs on a Luminous cluster
ConcInit ==
    /\ version = "Luminous"
    /\ config \in Configs
    /\ InitHost(FALSE)
    /\ call = [ p \in Procs |-> IdleCall ]
    /\ ncalls = 0
    /\ nfaults = 0
    /\ scratch = << >>

\* add_disk(device, None, false) by caller p, whatever the other caller
\* is doing
ConcAdd(p) == \E dev \in NewDevs : AddDisk(p, dev, FALSE)

ConcNext == \E p \in Procs : ConcAdd(p) \/ BluestoreStep(p)

ConcSpec == ConcInit /\ [][ConcNext]_vars

\* call d has decided to reuse the existing partition candidate j names
Reusing(d, j) ==
    /\ d.op = "add"
    /\ IsSome(j.partition_id)
    /\ d.journal = Some(JournalDevice(j.device, j.partition_id, None, Some(1)))

\* call d has made its block.wal symlink
Linked(d) == Pos(d.trace, "symlink_wal") # 0 /\ d.at # "b_link_wal"

\* C18: nothing excludes two concurrent adds from claiming the same
\* journal partition. While one add has decided to reuse an existing
\* partition and has not made its symlink yet, the in-use scan of the
\* other add for that partition is not held back and finds the partition
\* free; and when both adds have decided to reuse the same partition and
\* made their symlinks, the block.wal links of their two OSD directories
\* resolve to that one partition.
C18_ScanRaceWindowOpen ==
    \A p, q \in Procs :
      LET c == call[p]
          d == call[q]
      IN  p # q =>
            /\ (/\ c.op = "add" /\ c.pc = "sj_eval"
                /\ IsSome(c.cands[1].partition_id)
                /\ The(c.cands[1].partition_id) \in gpt[c.cands[1].device].parts
                /\ Reusing(d, c.cands[1]) /\ Running(d) /\ ~Linked(d)
                /\ \A i \in ExistingIds :
                     PartGuid(c.cands[1].device, The(c.cands[1].partition_id))
                       \notin JournalGuids(i))
                 => /\ ENABLED EvalJournalScan(p)
                    /\ \A o \in DirOrders :
                         PartitionInUse(gpt, DirsIn(o),
                            PartGuid(c.cands[1].device, The(c.cands[1].partition_id)))
                           = "false"
            /\ (/\ c.op = "add" /\ IsSome(c.journal)
                /\ Reusing(d, The(c.journal)) /\ Reusing(c, The(c.journal))
                /\ Linked(c) /\ Linked(d))
                 => /\ c.osd_id # d.osd_id
                    /\ JournalGuids(The(c.osd_id)) \cap JournalGuids(The(d.osd_id)) # {}

\* two adds in flight together have both linked block.wal to the same
\* existing partition, on a host that had no OSD directory before
C18_Witness ==
    \E p, q \in Procs :
      LET c == call[p]
          d == call[q]
      IN  /\ p # q
          /\ c.op = "add" /\ IsSome(c.journal)
          /\ Reusing(d, The(c.journal)) /\ Reusing(c, The(c.journal))
          /\ Linked(c) /\ Linked(d)
          /\ ExistingIds = c.osd_id \cup d.osd_id
          /\ JournalGuids(The(c.osd_id)) \cap JournalGuids(The(d.osd_id)) # {}


\* ------------------------------------------------------------------------
\* Order of the steps of add and remove on the Bluestore layout
\* ------------------------------------------------------------------------
\* every name of the list was invoked, in the order of the list
AllInOrder(tr, names) ==
    /\ \A i \in DOMAIN names : Pos(tr, names[i]) # 0
    /\ \A i \in 1..(Len(names) - 1) : Pos(tr, names[i]) < Pos(tr, names[i + 1])

\* a name of the list was invoked only after the one before it
EachAfterPrevious(tr, names) ==
    \A i \in 1..(Len(names) - 1) : Precedes(tr, names[i], names[i + 1])

\* name occurs once in tr at most
AtMostOnce(tr, name) ==
    Cardinality({ i \in DOMAIN tr : tr[i] = name }) <= 1

BluestoreAddOrder ==
    << "select_journal", "osd_create", "create_lvm", "vg_create",
       "create_lv_linear", "create_lvm_tags", "add_tag", "mount_point", "fsid",
       "symlink_block", "activate_monmap", "change_permissions",
       "osd_auth_add", "auth_get_key", "save_keyring", "ceph_mkfs",
       "ceph_bluestore_tool", "osd_crush_add", "systemctl_enable",
       "setup_osd_init" >>

\* C19: a non-simulated Bluestore add invokes a step only after the one
\* before it in this order has been invoked and has not failed: journal
\* resolution, id allocation, volume provisioning and tagging, mount
\* directory and fsid file, block and block.wal symlinks, membership-map
\* file, chown, auth key and keyring, engine mkfs, priming, placement
\* registration, service enable, service start. A successful add has
\* invoked them all, each once.
C19_BluestoreAddOrder ==
    \A p \in Procs :
      LET c == call[p]
          last == Pos(c.trace, "add_tag") + Len(c.tags) - 1
      IN  (c.op = "add" /\ ~c.sim /\ c.layout = "bluestore")
            => /\ EachAfterPrevious(c.trace, BluestoreAddOrder)
               /\ Precedes(c.trace, "symlink_block", "symlink_wal")
               /\ Precedes(c.trace, "symlink_wal", "chown_journal")
               /\ Pos(c.trace, "symlink_wal") # 0
                    => Precedes(c.trace, "chown_journal", "activate_monmap")
               /\ \A i \in DOMAIN BluestoreAddOrder :
                    BluestoreAddOrder[i] # "add_tag"
                      => AtMostOnce(c.trace, BluestoreAddOrder[i])
               /\ (c.pc = "done" /\ c.result = "ok")
                    => /\ AllInOrder(c.trace, BluestoreAddOrder)
                       /\ \A k \in Pos(c.trace, "add_tag")..last :
                            c.trace[k] = "add_tag"
                       /\ c.trace[last + 1] = "mount_point"
                       /\ IsSome(c.journal) <=> Pos(c.trace, "symlink_wal") # 0
                       /\ c.trace[1] = "select_journal"
                       /\ c.trace[Len(c.trace)] = "setup_osd_init"

\* a non-simulated Bluestore add with a journal returned success
C19_Witness ==
    \E p \in Procs :
      LET c == call[p]
      IN  /\ c.op = "add" /\ ~c.sim /\ c.layout = "bluestore"
          /\ c.pc = "done" /\ c.result = "ok"
          /\ IsSome(c.journal) /\ Pos(c.trace, "symlink_wal") # 0

BluestoreRemoveOrder ==
    << "osd_out", "osd_crush_remove", "auth_del", "systemctl_stop", "osd_rm",
       "lv_remove", "vg_remove", "pv_remove", "erase", "remove_dir_all",
       "systemctl_disable" >>

\* the invocations of a remove, the erase under one name whether it
\* failed or not
EraseAsOne(tr) ==
    [ i \in DOMAIN tr |->
        IF tr[i] \in { "erase_block_device", "erase_failed" } THEN "erase" ELSE tr[i] ]

VolumeTeardown == { "lv_remove", "vg_remove", "pv_remove" }
ClusterRemovals == { "osd_out", "osd_crush_remove", "auth_del", "osd_rm" }

\* C20: a non-simulated Bluestore remove invokes in this order: mark out,
\* placement removal, auth key deletion, service stop, id removal,
\* removal of the logical volumes, of the volume group, of the physical
\* volume, erase, mount directory deletion, service disable. A successful
\* remove has invoked them all; and no volume is torn down before the
\* four cluster removals were made: the cluster holds no record of the
\* OSD when the teardown starts.
C20_BluestoreRemoveOrder ==
    \A p \in Procs :
      LET c == call[p]
          tr == EraseAsOne(c.trace)
      IN  (c.op = "remove" /\ ~c.sim /\ c.layout = "bluestore")
            => /\ EachAfterPrevious(tr, BluestoreRemoveOrder)
               /\ \A t \in VolumeTeardown, r \in ClusterRemovals :
                    Pos(tr, t) # 0 => (Pos(tr, r) # 0 /\ Pos(tr, r) < Pos(tr, t))
               /\ c.pc \in { "r_lv_remove", "r_vg_remove", "r_pv_remove" }
                    => ~ClusterRecord(The(c.osd_id))
               /\ (c.pc = "done" /\ c.result = "ok")
                    => AllInOrder(tr, BluestoreRemoveOrder)

\* a non-simulated Bluestore remove returned success
C20_Witness ==
    \E p \in Procs :
      LET c == call[p]
      IN  /\ c.op = "remove" /\ ~c.sim /\ c.layout = "bluestore"
          /\ c.pc = "done" /\ c.result = "ok"
          /\ Pos(c.trace, "vg_remove") # 0

\* ------------------------------------------------------------------------
\* How remove resolves the layout
\* ------------------------------------------------------------------------
\* the call went down remove_filestore_osd
TookFilestoreRemoval(c) == Pos(c.trace, "get_mountpoint") # 0

\* C21: on every engine version, remove first probes the device for a
\* volume group, and goes down the Filestore removal only when the device
\* had no volume group and its mount carried a type marker reading
\* "filestore".
C21_RemoveProbesVolumeGroupFirst ==
    \A p \in Procs :
      LET c == call[p]
      IN  (c.op = "remove" /\ c.trace # << >>)
            => /\ c.trace[1] = "vg_name_from_device"
               /\ TookFilestoreRemoval(c) => (~c.pre.vg /\ c.pre.marker)


\* the tags of the volumes yield an OSD id and an OSD fsid
TagsYieldBoth(lvs) ==
    LET r == ReadOsdTags(lvs)
    IN  ~r.err /\ IsSome(r.osd_id) /\ IsSome(r.osd_fsid)

\* what remove_bluestore_osd invokes after the tag read-back
AfterReadBack ==
    ClusterRemovals \cup VolumeTeardown
      \cup { "systemctl_stop", "systemctl_disable", "erase_block_device",
             "erase_failed", "remove_dir_all" }

\* C22: when the tags of the device's logical volumes do not yield both
\* an OSD id and an OSD fsid (a tag is absent, or carries no value after
\* its name), the Bluestore remove returns an error at the read-back: that
\* step changes nothing, and the call has made no cluster removal, no
\* service command and no volume-manager change.
C22_MissingTagsFailBeforeMutation ==
    /\ [][ \A p \in Procs :
             LET c == call[p]
             IN  (/\ c.op = "remove" /\ c.pc = "r_tags" /\ call'[p] # c
                  /\ ~TagsYieldBoth(The(vgs[c.dev]).lvs))
                   => /\ Failed(call'[p]) /\ call'[p].at = "r_tags"
                      /\ call'[p].eff = {}
                      /\ UNCHANGED hostVars ]_vars
    /\ [](/\ \A p \in Procs :
               LET c == call[p]
               IN  (c.op = "remove" /\ Failed(c) /\ c.at = "r_tags")
                     => /\ c.eff = {}
                        /\ \A n \in AfterReadBack : Pos(c.trace, n) = 0
          /\ TagValue("ceph.osd_id") = None
          /\ ~TagsYieldBoth(<< << "ceph.osd_id", OsdFsidTag(ClusterFsid) >> >>)
          /\ ~TagsYieldBoth(<< << OsdIdTag(0), "ceph.osd_fsid" >> >>)
          /\ ~TagsYieldBoth(<< << OsdIdTag(0) >> >>)
          /\ ~TagsYieldBoth(<< << >> >>)
          /\ TagsYieldBoth(<< << OsdIdTag(0), OsdFsidTag(ClusterFsid) >> >>))

\* a remove returned the read-back's own error on a volume whose tags
\* name the OSD id but not the fsid (left by an add that failed while
\* tagging), the id still being allocated
C22_Witness ==
    \E p \in Procs :
      LET c == call[p]
          r == ReadOsdTags(The(vgs[c.dev]).lvs)
      IN  /\ c.op = "remove" /\ ~c.sim /\ Failed(c)
          /\ c.at = "r_tags" /\ c.err = "check"
          /\ IsSome(vgs[c.dev])
          /\ IsSome(r.osd_id) /\ IsNone(r.osd_fsid)
          /\ The(r.osd_id) \in osds


\* ------------------------------------------------------------------------
\* evaluate_journal: reuse of the named partition, or a new one
\* ------------------------------------------------------------------------
\* what the in-use scan may answer for the partition candidate j names,
\* over the orders read_dir may yield the OSD directories in
ScanAnswers(j) ==
    { PartitionInUse(gpt, DirsIn(o), PartGuid(j.device, The(j.partition_id))) :
        o \in DirOrders }

\* table t2 is table t1 with partition id added, carved out of one free
\* extent that shrank by the sectors of size bytes
PartitionAdded(t1, t2, id, size) ==
    /\ id \notin t1.parts
    /\ t2.parts = t1.parts \cup { id }
    /\ Len(t2.free) = Len(t1.free)
    /\ \E k \in DOMAIN t1.free :
         /\ t2.free[k] = t1.free[k] - (size \div LbaSize)
         /\ \A m \in DOMAIN t1.free \ { k } : t2.free[m] = t1.free[m]

\* C23: journal resolution of the chosen candidate. With a device and a
\* partition index whose partition exists, evaluate_journal goes on to
\* create a new partition exactly when the in-use scan answers that an
\* OSD's journal link resolves to that partition's GUID; when the scan
\* answers that none does, the existing partition is returned as it is and
\* no partition is created. With a device alone a new partition is always
\* created. The partition created has the requested size, and no other
\* step creates one.
C23_ReuseOrNewPartition ==
    /\ [][ \A p \in Procs :
             LET c == call[p]
                 d == call'[p]
                 j == c.cands[1]
             IN  /\ (c.pc = "sj_eval" /\ d.trace # c.trace)
                      => /\ UNCHANGED gpt
                         /\ IsNone(j.partition_id)
                              => (d.pc = "sj_create" /\ d.journal = None)
                         /\ (/\ IsSome(j.partition_id)
                             /\ The(j.partition_id) \in gpt[j.device].parts)
                              => /\ ScanAnswers(j) = { "true" } => d.pc = "sj_create"
                                 /\ d.pc = "sj_create" => "true" \in ScanAnswers(j)
                                 /\ IsSome(d.journal) => "false" \in ScanAnswers(j)
                                 /\ ScanAnswers(j) = { "false" }
                                      => /\ d.pc = AfterJournal(c)
                                         /\ d.part = None
                                         /\ d.journal =
                                              Some(JournalDevice(j.device, j.partition_id,
                                                                 None, Some(1)))
                 /\ (/\ c.pc = "sj_create" /\ d.trace # c.trace /\ ~Failed(d)
                     /\ nfaults' = nfaults)
                      => /\ IsSome(d.part)
                         /\ PartitionAdded(gpt[j.device], gpt'[j.device], The(d.part),
                                           JournalBytes(JournalSizeMb))
                 /\ (Running(c) /\ c.pc # "sj_create") => UNCHANGED gpt ]_vars
    /\ [](\A p \in Procs :
            LET c == call[p]
            IN  (c.op = "add" /\ IsSome(c.journal))
                  => IF IsNone(c.part)
                     THEN /\ IsSome(c.cands[1].partition_id)
                          /\ The(c.journal).device = c.cands[1].device
                          /\ The(c.journal).partition_id = c.cands[1].partition_id
                          /\ "partition" \notin c.eff
                     ELSE /\ The(c.journal).partition_id = c.part
                          /\ The(c.journal).device = c.cands[1].device
                          /\ "partition" \in c.eff)

\* the candidate names /dev/sdj1, an OSD's block.wal resolves to it, and
\* the journal returned is a new partition of /dev/sdj
C23_Witness ==
    \E p \in Procs :
      LET c == call[p]
      IN  /\ c.op = "add" /\ IsSome(c.journal)
          /\ c.cands[1].device = "/dev/sdj" /\ c.cands[1].partition_id = Some(1)
          /\ IsSome(dirs[0]) /\ PartGuid("/dev/sdj", 1) \in JournalGuids(0)
          /\ The(c.journal).partition_id = Some(2)
          /\ 2 \in gpt["/dev/sdj"].parts


\* ------------------------------------------------------------------------
\* Filestore add: format and probe come before the id
\* ------------------------------------------------------------------------
\* what add_filestore_osd invokes once the id is allocated
AfterFilestoreId ==
    { "mount_device", "osd_auth_add", "save_keyring", "osd_crush_add",
      "add_osd_to_fstab" }

\* C24: on the Filestore add path the OSD id is allocated only after the
\* device was formatted (when not simulating) and probed. When the probe
\* shows no filesystem UUID, add returns an error at the probe: no id is
\* allocated, and no mount, auth key, placement entry or mount-table entry
\* is made.
C24_FilestoreIdAfterFormatAndProbe ==
    /\ [][ \A p \in Procs :
             LET c == call[p]
                 d == call'[p]
             IN  (c.op = "add" /\ c.layout = "filestore" /\ Running(c))
                   => /\ osds' # osds
                           => /\ c.pc = "f_osd_create"
                              /\ Pos(c.trace, "get_device_info") # 0
                              /\ ~c.sim => ("format" \in c.eff /\ disks[c.dev].formatted)
                      /\ (c.pc = "f_probe" /\ d # c /\ ~disks[c.dev].formatted)
                           => Failed(d)
                      /\ (c.pc = "f_probe" /\ Failed(d)) => UNCHANGED hostVars ]_vars
    /\ [](\A p \in Procs :
            LET c == call[p]
            IN  (c.op = "add" /\ c.layout = "filestore")
                  => /\ Precedes(c.trace, "format_block_device", "get_device_info")
                     /\ Precedes(c.trace, "get_device_info", "osd_create")
                     /\ IsSome(c.osd_id) => Pos(c.trace, "osd_create") # 0
                     /\ (Failed(c) /\ c.at = "f_probe")
                          => /\ c.osd_id = None
                             /\ Pos(c.trace, "osd_create") = 0
                             /\ \A n \in AfterFilestoreId : Pos(c.trace, n) = 0
                             /\ c.eff \subseteq { "format" })

\* a non-simulated Filestore add formatted the device, found no filesystem
\* UUID in the probe and returned that error without an id
C24_Witness ==
    \E p \in Procs :
      LET c == call[p]
      IN  /\ c.op = "add" /\ c.layout = "filestore" /\ ~c.sim
          /\ Failed(c) /\ c.at = "f_probe" /\ c.err = "check"
          /\ c.trace = << "format_block_device", "get_device_info" >>
          /\ c.eff = { "format" }
          /\ c.osd_id = None


\* ------------------------------------------------------------------------
\* Filestore removal against Bluestore removal
\* ------------------------------------------------------------------------
\* the cluster removals in the order both removals issue them
ClusterRemovalOrder == << "osd_out", "osd_crush_remove", "auth_del", "osd_rm" >>

IsClusterRemoval(n) == n \in ClusterRemovals

\* the cluster removals a call has invoked, in the order it invoked them
ClusterCalls(tr) == SelectSeq(tr, IsClusterRemoval)

IsPrefix(s, t) == Len(s) <= Len(t) /\ s = SubSeq(t, 1, Len(s))

\* the call went down remove_bluestore_osd past the volume group lookup
TookBluestoreRemoval(c) == Pos(c.trace, "get_tags") # 0

\* the real effects that are volume-manager changes
VolumeEffects == { "vg", "lv", "tag", "lvremove", "vgremove", "pvremove" }

\* C25: the Filestore removal issues the cluster removals the Bluestore
\* removal issues, in the same order and for the OSD id it discovered:
\* mark out, placement removal, auth key deletion, id removal; a removal
\* that returned success has issued all four and, when not simulated, the
\* cluster holds no record of the OSD. The Filestore removal makes no
\* volume-manager operation.
C25_FilestoreRemovalSameClusterSequence ==
    /\ [][ \A p \in Procs :
             (call[p].op = "remove" /\ TookFilestoreRemoval(call[p]))
               => UNCHANGED vgs ]_vars
    /\ [](\A p \in Procs :
            LET c == call[p]
                done == c.pc = "done" /\ c.result = "ok"
            IN  /\ (c.op = "remove" /\ TookBluestoreRemoval(c))
                     => /\ IsPrefix(ClusterCalls(c.trace), ClusterRemovalOrder)
                        /\ done => ClusterCalls(c.trace) = ClusterRemovalOrder
                /\ (c.op = "remove" /\ TookFilestoreRemoval(c))
                     => /\ IsPrefix(ClusterCalls(c.trace), ClusterRemovalOrder)
                        /\ done => ClusterCalls(c.trace) = ClusterRemovalOrder
                        /\ ClusterCalls(c.trace) # << >> => IsSome(c.osd_id)
                        /\ (done /\ ~c.sim) => ~ClusterRecord(The(c.osd_id))
                        /\ \A t \in VolumeTeardown : Pos(c.trace, t) = 0
                        /\ c.eff \cap VolumeEffects = {})

\* a non-simulated Filestore removal of the OSD on the legacy device
\* returned success
C25_Witness ==
    \E p \in Procs :
      LET c == call[p]
      IN  /\ c.op = "remove" /\ ~c.sim /\ TookFilestoreRemoval(c)
          /\ c.dev = LegacyDev
          /\ c.pc = "done" /\ c.result = "ok"
          /\ c.osd_id = Some(0)
          /\ ClusterCalls(c.trace) = ClusterRemovalOrder
          /\ ~ClusterRecord(0)


\* ------------------------------------------------------------------------
\* The engine version and the path add takes
\* ------------------------------------------------------------------------
\* steps only add_bluestore_osd makes, and steps only add_filestore_osd makes
BluestoreOnlySteps ==
    { "create_lvm", "vg_create", "create_lv_linear", "create_lvm_tags",
      "add_tag", "symlink_block", "ceph_bluestore_tool", "systemctl_enable" }
FilestoreOnlySteps ==
    { "format_block_device", "get_device_info", "mount_device",
      "add_osd_to_fstab" }

\* C26: add runs the Bluestore path exactly when the version recorded at
\* construction is Luminous or later, and the Filestore path otherwise;
\* no step of add, remove or safe_to_remove changes the recorded version.
C26_PathFollowsVersion ==
    /\ [][version' = version]_vars
    /\ [](\A p \in Procs :
            LET c == call[p]
                blue == version \in { "Luminous", "Mimic" }
            IN  c.op = "add"
                  => /\ blue <=> c.layout = "bluestore"
                     /\ ~blue <=> c.layout = "filestore"
                     /\ c.trace # << >>
                          => c.trace[1] = IF blue THEN "select_journal"
                                          ELSE "format_block_device"
                     /\ \A n \in BluestoreOnlySteps : Pos(c.trace, n) # 0 => blue
                     /\ \A n \in FilestoreOnlySteps : Pos(c.trace, n) # 0 => ~blue)

\* on a cluster at Luminous itself, an add that followed a remove is
\* provisioning a volume
C26_Witness ==
    \E p \in Procs :
      LET c == call[p]
      IN  /\ version = "Luminous"
          /\ c.op = "add" /\ c.prev.op = "remove"
          /\ Pos(c.trace, "create_lv_linear") # 0


\* ------------------------------------------------------------------------
\* The JournalDevice select_journal returns
\* ------------------------------------------------------------------------
\* C27: every JournalDevice the journal selector returns is fully
\* resolved: its partition index and its partition GUID are both set,
\* when the existing partition is reused as well as when a new one was
\* created.
C27_ReturnedJournalFullyResolved ==
    \A p \in Procs :
      LET c == call[p]
      IN  (c.op = "add" /\ IsSome(c.journal))
            => /\ IsSome(The(c.journal).partition_id)
               /\ IsSome(The(c.journal).partition_uuid)


\* C28: a JournalDevice the journal selector returns with its partition
\* GUID set names a partition that is in the table of its device, at its
\* partition index and with that GUID; and when the table read back after
\* the write holds no partition at the new index, create_journal returns
\* an error and no JournalDevice is returned.
C28_ReturnedPartitionExists ==
    \A p \in Procs :
      LET c == call[p]
          j == The(c.journal)
      IN  c.op = "add"
            => /\ (IsSome(c.journal) /\ IsSome(j.partition_uuid))
                    => /\ IsSome(j.partition_id)
                       /\ The(j.partition_id) \in gpt[j.device].parts
                       /\ The(j.partition_uuid) = PartGuid(j.device, The(j.partition_id))
                       /\ j.partition_id = c.part
               /\ (/\ IsSome(c.part) /\ c.pc # "sj_reread"
                   /\ The(c.part) \notin gpt[c.cands[1].device].parts)
                    => /\ Failed(c) /\ c.at = "sj_reread"
                       /\ c.journal = None

\* the partition named by the candidate is in use, and the JournalDevice
\* returned carries the index and the GUID of the second partition of
\* /dev/sdj, which is in the table
C28_Witness ==
    \E p \in Procs :
      LET c == call[p]
      IN  /\ c.op = "add" /\ IsSome(c.journal)
          /\ c.cands[1].partition_id = Some(1)
          /\ The(c.journal) = JournalDevice("/dev/sdj", Some(2),
                                            Some(PartGuid("/dev/sdj", 2)), Some(2))
          /\ gpt["/dev/sdj"].parts = { 1, 2 }


\* ------------------------------------------------------------------------
\* The tags of the logical volume
\* ------------------------------------------------------------------------
\* the tags on the logical volume call c created
TagsOnVolume(c) == LET lvs == The(vgs[c.dev]).lvs IN lvs[Len(lvs)]

\* the call has built its tag vector
TagsBuilt(c) ==
    c.op = "add" /\ Pos(c.trace, "create_lvm_tags") # 0 /\ c.at # "b_tags"

\* C29: the tags are written one at a time in the order the vector was
\* built in: at every moment the volume carries the first tags of the
\* vector, as many as were written. When writing the k-th tag fails, the
\* volume carries exactly the first k-1 tags, no later tag is written,
\* add returns the error, and the logical volume and the volume group are
\* still there.
C29_TagsOneAtATimeInOrder ==
    /\ [][ \A p \in Procs :
             LET c == call[p]
                 d == call'[p]
             IN  /\ (c.pc = "b_add_tag" /\ d # c /\ ~Failed(d))
                      => /\ d.ntags = c.ntags + 1
                         /\ TagsOnVolume(c)' = Append(TagsOnVolume(c), c.tags[c.ntags + 1])
                 /\ (c.pc = "b_add_tag" /\ Failed(d)) => UNCHANGED vgs
                 /\ (TagsBuilt(c) /\ Failed(c)) => UNCHANGED vgs ]_vars
    /\ [](\A p \in Procs :
            LET c == call[p]
            IN  TagsBuilt(c)
                  => /\ IsSome(vgs[c.dev]) /\ Len(The(vgs[c.dev]).lvs) >= 1
                     /\ TagsOnVolume(c) = SubSeq(c.tags, 1, c.ntags)
                     /\ Cardinality({ i \in DOMAIN c.trace : c.trace[i] = "add_tag" })
                          = c.ntags
                     /\ Pos(c.trace, "mount_point") # 0 => c.ntags = Len(c.tags)
                     /\ (Failed(c) /\ c.at = "b_add_tag")
                          => /\ c.ntags < Len(c.tags)
                             /\ c.trace[Len(c.trace)] \in { "add_tag", "create_lvm_tags" })

\* writing the fourth tag failed: the volume carries ceph.type,
\* ceph.block_device and ceph.osd_id and nothing else, and add returned
\* the error
C29_Witness ==
    \E p \in Procs :
      LET c == call[p]
      IN  /\ TagsBuilt(c) /\ Failed(c) /\ c.at = "b_add_tag"
          /\ c.ntags = 3
          /\ IsSome(vgs[c.dev])
          /\ TagsOnVolume(c) = << c.tags[1], c.tags[2], OsdIdTag(The(c.osd_id)) >>


\* the tags of the vector whose name is key
TagsNamed(tags, key) ==
    { i \in DOMAIN tags : StartsWith(tags[i], key \o "=") }

\* C30: the tag vector built for a logical volume holds the wal_device
\* tag and the wal_uuid tag exactly when a journal was selected for the
\* OSD: with no journal neither is there, with a journal both are, once
\* each, wal_device naming the journal and wal_uuid the GUID of its
\* partition.
C30_WalTagsIffJournal ==
    \A p \in Procs :
      LET c == call[p]
          dev == TagsNamed(c.tags, "ceph.wal_device")
          uuid == TagsNamed(c.tags, "ceph.wal_uuid")
          j == The(c.journal)
      IN  (TagsBuilt(c) /\ c.tags # << >>)
            => /\ IsSome(c.journal) <=> dev # {}
               /\ IsSome(c.journal) <=> uuid # {}
               /\ IsNone(c.journal) => Len(c.tags) = 10
               /\ IsSome(c.journal)
                    => /\ Len(c.tags) = 12
                       /\ Cardinality(dev) = 1 /\ Cardinality(uuid) = 1
                       /\ \A i \in dev :
                            c.tags[i] = "ceph.wal_device=" \o JournalDisplay(j)
                       /\ \A i \in uuid :
                            c.tags[i] = "ceph.wal_uuid="
                              \o UuidText(PartGuid(j.device, The(j.partition_id)))

\* an add that reuses /dev/sdj1 has built its tags: wal_device names
\* /dev/sdj1 and wal_uuid the GUID probed from it
C30_Witness ==
    \E p \in Procs :
      LET c == call[p]
      IN  /\ TagsBuilt(c) /\ c.tags # << >>
          /\ c.journal = Some(JournalDevice("/dev/sdj", Some(1), None, Some(1)))
          /\ \E i, k \in DOMAIN c.tags :
               /\ c.tags[i] = "ceph.wal_device=/dev/sdj1"
               /\ c.tags[k] = "ceph.wal_uuid=" \o UuidText(PartGuid("/dev/sdj", 1))


\* ------------------------------------------------------------------------
\* Volume provisioner: the size create_lvm asks for
\* ------------------------------------------------------------------------
\* the largest volume group size looked at, in MiB
MaxVgMib == 20

\* 10_485_760 bytes
LvReserve == Bytes(10, 0)

\* a u64 counts 2^64 bytes: 2^24 units of 2^40 bytes
U64Tib == 16777216

\* A u64 of any value is kept as [tib, mib, rem]:
\* tib * 2^40 + mib * 2^20 + rem bytes, tib < 2^24, mib < 2^20, rem < 2^20
Wide(size) ==
    [ tib |-> (size.mib \div MiB) % U64Tib, mib |-> size.mib % MiB,
      rem |-> size.rem ]

\* a < b on u64
WideLess(a, b) ==
    \/ a.tib < b.tib
    \/ a.tib = b.tib /\ a.mib < b.mib
    \/ a.tib = b.tib /\ a.mib = b.mib /\ a.rem < b.rem

\* a - b on u64 modulo 2^64, what `-` computes without overflow checks
WrappingSub(a, b) ==
    LET r == a.rem - b.rem
        m == a.mib - b.mib + (r \div MiB)
    IN  [ tib |-> (m \div MiB) % U64Tib, mib |-> m % MiB, rem |-> r % MiB ]

\* the builds of the crate: `-` panics on overflow with overflow checks
\* (the dev profile) and wraps without them (the release profile)
Builds == { "dev", "release" }

\* the sizes vg.get_size() may report
VgSizes == { Bytes(m, r) : m \in 0..MaxVgMib, r \in { 0, 1, MiB - 1 } }

LvInit ==
    /\ version \in { Versions[i] : i \in 1..Len(Versions) }
    /\ config = None
    /\ osds = {} /\ auth = {} /\ crush = {}
    /\ gpt = InitGpt
    /\ dirs = [ i \in OsdIds |-> None ]
    /\ vgs = [ d \in Devs |-> None ]
    /\ disks = [ d \in Devs |-> [ formatted |-> FALSE, mount |-> None ] ]
    /\ call = [ p \in Procs |-> IdleCall ]
    /\ ncalls = 0
    /\ nfaults = 0
    /\ \E vg \in VgSizes :
         scratch = [ vg |-> vg, outcome |-> "none", request |-> None,
                     returned |-> None ]

\* create_lvm from create_lv_linear on, the volume manager accepting the
\* request: vg.create_lv_linear(&lv_name, vg.get_size() - 10_485_760) and
\* Ok((lv_dev_name, vg.get_size()))
LvCreateLinear(build) ==
    /\ scratch.outcome = "none"
    /\ IF WideLess(Wide(scratch.vg), Wide(LvReserve)) /\ build = "dev"
       THEN scratch' = [ scratch EXCEPT !.outcome = "panic" ]
       ELSE scratch' = [ scratch EXCEPT
                           !.outcome = "ok",
                           !.request = Some(WrappingSub(scratch.vg, LvReserve)),
                           !.returned = Some(scratch.vg) ]
    /\ UNCHANGED << version, config, hostVars, call, ncalls, nfaults >>

LvNext == \E build \in Builds : LvCreateLinear(build)

LvSpec == LvInit /\ [][LvNext]_vars

\* C31: create_lvm asks for a logical volume of the group's size less
\* 10,485,760 bytes and returns the group's size; whatever the group's
\* size, sizes below the reserve included, the call gets as far as the
\* request, and the size asked for is a value below the group's size that
\* gives the group's size back when the reserve is added
C31_LvRequestBelowGroupSize ==
    scratch.outcome # "none"
      => /\ scratch.outcome = "ok"
         /\ scratch.returned = Some(scratch.vg)
         /\ LET req == The(scratch.request)
            IN  /\ WideLess(req, Wide(scratch.vg))
                /\ req.tib = 0
                /\ Bytes(req.mib + LvReserve.mib, req.rem + LvReserve.rem) = scratch.vg


\* ------------------------------------------------------------------------
\* Free-space filter
\* ------------------------------------------------------------------------
\* some single free extent of the table is longer than size bytes
SingleExtentAbove(table, size) ==
    \E k \in DOMAIN table.free : table.free[k] * LbaSize > size

\* the free extents of the table taken together, in sectors
RECURSIVE FreeSectors(_)
FreeSectors(free) ==
    IF free = << >> THEN 0 ELSE Head(free) + FreeSectors(Tail(free))

\* the largest free extent is exactly size bytes long, and the extents
\* together are longer
ExactFitOnly(table, size) ==
    /\ table.free # << >>
    /\ \A k \in DOMAIN table.free : table.free[k] * LbaSize <= size
    /\ \E k \in DOMAIN table.free : table.free[k] * LbaSize = size
    /\ FreeSectors(table.free) * LbaSize > size

\* C32: enough_free_space accepts a device exactly when some single free
\* extent of it, in sectors times the block size, is strictly longer than
\* the size asked for: a device whose largest free extent is exactly that
\* size is rejected, extents are never added up, and the candidate
\* select_journal goes on with has such an extent.
C32_SingleExtentStrictlyLarger ==
    LET size == JournalBytes(JournalSizeMb)
    IN  /\ \A d \in JournalDevs :
             /\ EnoughFreeSpace(gpt[d], size) <=> SingleExtentAbove(gpt[d], size)
             /\ ExactFitOnly(gpt[d], size) => ~EnoughFreeSpace(gpt[d], size)
        /\ \A p \in Procs :
             LET c == call[p]
             IN  /\ (JustSelected(c) /\ c.pc = "sj_eval")
                      => SingleExtentAbove(gpt[c.cands[1].device], size)
                 /\ (/\ JustSelected(c)
                     /\ \A k \in DOMAIN ConfigList :
                          ~SingleExtentAbove(gpt[ConfigList[k].device], size))
                      => c.cands = << >> /\ c.journal = None

\* a configured candidate on a device with two free extents of exactly
\* the journal's size, and none with a longer extent: select_journal has
\* returned no journal
C32_Witness ==
    \E p \in Procs :
      LET c == call[p]
          size == JournalBytes(JournalSizeMb)
      IN  /\ JustSelected(c) /\ nfaults = 0
          /\ c.cands = << >> /\ c.journal = None
          /\ \E k \in DOMAIN ConfigList : ExactFitOnly(gpt[ConfigList[k].device], size)


\* ------------------------------------------------------------------------
\* One candidate per call
\* ------------------------------------------------------------------------
\* the positions of call c inside evaluate_journal and create_journal
ResolvePcs == { "sj_eval", "sj_create", "sj_reread" }

JournalStepNames ==
    { "evaluate_journal", "partition_in_use", "create_journal",
      "update_partition_cache" }

\* call c ended with an error while it resolved its candidate
ResolveFailed(c) == c.op = "add" /\ Failed(c) /\ c.at \in ResolvePcs

\* the candidates with room, in the order select_journal considers them
Qualifying ==
    FilterFree(SortByNumPartitions(ConfigList), gpt, JournalBytes(JournalSizeMb), {})

\* C33: select_journal resolves the first candidate that passes the
\* free-space filter and no other: while it is resolved the candidate
\* stays the same and no other device's table changes; when resolving it
\* fails (partition not found, scan error, creation error) the call
\* returns the error at once with no journal, evaluates nothing again and
\* runs no later step of add; add goes on only with a journal on the
\* candidate's device, never with none.
C33_FirstCandidateOnly ==
    /\ [][ \A p \in Procs :
             LET c == call[p]
                 d == call'[p]
             IN  /\ (c.pc \in { "b_select_journal", "f_select_journal" }
                       /\ d.pc = "sj_eval")
                      => /\ Len(d.cands) = 1
                         /\ nfaults' = nfaults => d.cands[1] = Qualifying[1]
                 /\ (c.pc \in ResolvePcs /\ d # c)
                      => /\ d.cands = c.cands
                         /\ d.pc \in { "sj_create", "sj_reread", "done", AfterJournal(c) }
                         /\ d.pc = c.pc => FALSE
                         /\ \A jd \in JournalDevs \ { c.cands[1].device } :
                              gpt'[jd] = gpt[jd]
                         /\ d.pc = AfterJournal(c)
                              => /\ IsSome(d.journal)
                                 /\ The(d.journal).device = c.cands[1].device
                         /\ (/\ c.pc = "sj_eval"
                             /\ IsSome(c.cands[1].partition_id)
                             /\ The(c.cands[1].partition_id)
                                  \notin gpt[c.cands[1].device].parts)
                              => d.result = "err"
                         /\ d.result = "err"
                              => /\ d.pc = "done"
                                 /\ d.journal = None
                                 /\ gpt' = gpt
                 /\ (ResolveFailed(c) /\ d # c) => d.op # c.op \/ d.trace = << >>
       ]_vars
    /\ [](\A p \in Procs :
            LET c == call[p]
                k == Pos(c.trace, "select_journal")
            IN  ResolveFailed(c)
                  => /\ c.journal = None
                     /\ Len(c.cands) = 1
                     /\ k # 0
                     /\ \A i \in (k + 1)..Len(c.trace) : c.trace[i] \in JournalStepNames
                     /\ \A n \in JournalStepNames \cup { "select_journal" } :
                          AtMostOnce(c.trace, n))

\* the first candidate names a partition its device does not hold and a
\* later candidate has room on another device: the call has ended with the
\* error, and the later candidate's device is as it was
C33_Witness ==
    \E p \in Procs :
      LET c == call[p]
      IN  /\ ResolveFailed(c) /\ c.at = "sj_eval" /\ nfaults = 0
          /\ Len(Qualifying) >= 2
          /\ Qualifying[1] = c.cands[1]
          /\ Qualifying[2].device # c.cands[1].device
          /\ The(c.cands[1].partition_id) \notin gpt[c.cands[1].device].parts
          /\ c.trace[Len(c.trace)] = "evaluate_journal"


\* ------------------------------------------------------------------------
\* remove, and remove again, of a provisioned bluestore OSD
\* ------------------------------------------------------------------------
\* the device, the id and the OSD UUID of the bluestore OSD the host holds
RetryDev == "/dev/sdb"
RetryId == 1
RetryFsid == 7

\* the host as a completed add_disk(/dev/sdb) without a journal leaves it,
\* next to filestore OSD 0 on LegacyDev: the tagged volume, the OSD
\* directory, the cluster's records
RetryInit ==
    /\ version \in { Versions[i] : i \in 2..Len(Versions) }
    /\ config = None
    /\ osds = { 0, RetryId }
    /\ auth = { 0, RetryId }
    /\ crush = { << 0, OsdWeightMilli(DevBytes(LegacyDev)) >>,
                 << RetryId, OsdWeightMilli(VgBytes(RetryDev)) >> }
    /\ gpt = InitGpt
    /\ dirs = [ i \in OsdIds |->
                  IF i = 0 THEN Some(LegacyDir)
                  ELSE IF i = RetryId
                  THEN Some([ EmptyDir EXCEPT
                                !.block = Some(LvDevName(RetryDev, RetryFsid)),
                                !.files = { "fsid", "keyring", "activate.monmap" },
                                !.type = Some("bluestore\n"),
                                !.whoami = Some("1\n") ])
                  ELSE None ]
    /\ vgs = [ d \in Devs |->
                 IF d = RetryDev
                 THEN Some([ lvs |-> << LvmTagList(LvDevName(RetryDev, RetryFsid),
                                                   RetryFsid, RetryId, ClusterFsid,
                                                   LvUuid, None, ClusterFsid,
                                                   MediaOf(RetryDev)) >> ])
                 ELSE None ]
    /\ disks = [ d \in Devs |->
                   IF d = LegacyDev
                   THEN [ formatted |-> TRUE, mount |-> Some(MountPoint(0)) ]
                   ELSE [ formatted |-> d = UsedDev, mount |-> None ] ]
    /\ call = [ p \in Procs |-> IdleCall ]
    /\ ncalls = 0
    /\ nfaults = 0
    /\ scratch = << >>

\* remove_disk of the bluestore device or of the filestore device
RetryRemove ==
    /\ Quiet(SerialProc)
    /\ \E dev \in { LegacyDev, RetryDev }, sim \in BOOLEAN :
         RemoveDisk(SerialProc, dev, sim)

RetryNext == RetryRemove \/ RemoveStep(SerialProc) \/ Fault(SerialProc)

RetrySpec == RetryInit /\ [][RetryNext]_vars

\* the positions of remove_bluestore_osd up to the choice of the layout:
\* the volume group lookup and is_filestore
LayoutPcs == { "r_lvm", "r_mountpoint", "r_tmp_mount", "r_type" }

LayoutStepNames ==
    { "vg_name_from_device", "is_filestore", "mount_device", "type_marker" }

\* call c removed the volumes, the group and the physical volume and then
\* returned an error from remove_dir_all or systemctl_disable
TornDown(c) ==
    /\ c.op = "remove" /\ Failed(c)
    /\ c.at \in { "r_rmdir", "r_disable" }
    /\ "pvremove" \in c.eff

\* call c is a remove of the device whose remove failed just before, found
\* without a volume group and without a filestore marker
Retry(c) ==
    /\ c.op = "remove" /\ c.pc # "idle"
    /\ c.prev.op = "remove" /\ c.prev.dev = c.dev /\ c.prev.result = "err"
    /\ ~c.pre.vg /\ ~c.pre.marker

\* C34: once a bluestore remove has removed the volumes and the group and
\* then failed at remove_dir_all or systemctl_disable, the device has no
\* volume group and so no tags; a remove of the same device made after it
\* finds neither group nor filestore marker, ends with an error during the
\* layout resolution, and runs none of the later steps: it changes neither
\* the cluster's records nor the OSD directories nor the volumes.
C34_RetryFailsAtLayoutResolution ==
    /\ [][ \A p \in Procs :
             LET c == call[p]
                 d == call'[p]
             IN  /\ (TornDown(c) /\ d # c /\ d.op = "remove" /\ d.dev = c.dev)
                      => /\ ~d.pre.vg /\ ~d.pre.marker
                         /\ Retry(d)
                 /\ (Retry(c) /\ d # c /\ Running(c))
                      => /\ d.pc \in LayoutPcs \cup { "done" }
                         /\ d.pc = "done" => d.result = "err"
                         /\ osds' = osds /\ auth' = auth /\ crush' = crush
                         /\ dirs' = dirs /\ vgs' = vgs /\ gpt' = gpt
       ]_vars
    /\ [](\A p \in Procs :
            LET c == call[p]
            IN  /\ TornDown(c)
                  => /\ vgs[c.dev] = None
                     /\ IsSome(c.osd_id) /\ The(c.osd_id) \notin osds
                /\ Retry(c)
                  => /\ c.pc \in LayoutPcs \cup { "done" }
                     /\ c.pc = "done" => (Failed(c) /\ c.at \in LayoutPcs)
                     /\ \A i \in DOMAIN c.trace : c.trace[i] \in LayoutStepNames
                     /\ c.eff \subseteq { "tempdir" }
                     /\ c.osd_id = None)

\* the first remove of /dev/sdb failed at systemctl_disable, the OSD
\* directory removed and the group gone; the remove made after it has
\* ended with an error at the mount is_filestore tries, and the service
\* unit was not disabled
C34_Witness ==
    \E p \in Procs :
      LET c == call[p]
      IN  /\ Retry(c) /\ Failed(c) /\ c.dev = RetryDev
          /\ c.at = "r_tmp_mount"
          /\ c.prev.osd_id = Some(RetryId) /\ ~c.prev.sim
          /\ vgs[RetryDev] = None
          /\ dirs[RetryId] = None
          /\ RetryId \notin osds
          /\ Pos(c.trace, "systemctl_disable") = 0


=============================================================================
